---- MODULE Spec2Model ----
(***************************************************************************)
(* A model of gohtml: Parse = lex (bytes -> tokens) followed by parse      *)
(* (tokens -> node tree), with the entity decoder, the tag field splitter  *)
(* and the search methods of Node.  Bytes are integer codes; a []byte is a *)
(* sequence of codes, and a Go slice data[lo:hi] of the input buffer is    *)
(* the pair (Lo, Hi) so that writes through an aliasing slice show.        *)
(***************************************************************************)
EXTENDS Integers, Sequences, FiniteSets, TLC

VARIABLES
    input,      \* the bytes of the caller's buffer when Parse is called
    data,       \* the caller's input buffer, the argument of Parse
    pc,         \* "lex", "parse", "done"; "entity", "entityDone" in SpecEntity;
                \* "query" in SpecQuery
    loc,        \* lex: the Location cursor of the lex loop
    tokens,     \* lex: the token list built so far
    lexErr,     \* lex: the fatal error returned by lex (NilErr if none)
    lexWarns,   \* lex: the warnings returned by lex
    nodes,      \* parse: the arena of allocated Nodes; nodes[1] is docNode
    tags,       \* parse: the stack of open elements (indices into nodes)
    i,          \* parse: the loop index into tokens (0-based)
    warns,      \* parse: the warnings collected by parse
    ret,        \* the value returned by Parse, once pc = "done"
    ent,        \* the expandEntitys loop state and the last parseEntity call
    qry         \* node.go: the call of a Node method in progress, its locals

vars == <<input, data, pc, loc, tokens, lexErr, lexWarns, nodes, tags, i, warns, ret, ent, qry>>

----------------------------------------------------------------------------
(* Bytes *)

Printable ==
    <<" ", "!", "\"", "#", "$", "%", "&", "'", "(", ")", "*", "+", ",", "-", ".", "/",
      "0", "1", "2", "3", "4", "5", "6", "7", "8", "9", ":", ";", "<", "=", ">", "?",
      "@", "A", "B", "C", "D", "E", "F", "G", "H", "I", "J", "K", "L", "M", "N", "O",
      "P", "Q", "R", "S", "T", "U", "V", "W", "X", "Y", "Z", "[", "\\", "]", "^", "_",
      "grave", "a", "b", "c", "d", "e", "f", "g", "h", "i", "j", "k", "l", "m", "n", "o",
      "p", "q", "r", "s", "t", "u", "v", "w", "x", "y", "z", "{", "|", "}", "~">>

\* The byte code of a one-character string.
B(c) ==
    CASE c = "\t" -> 9
      [] c = "\n" -> 10
      [] c = "\f" -> 12
      [] c = "\r" -> 13
      [] OTHER -> 31 + (CHOOSE k \in 1..Len(Printable) : Printable[k] = c)

\* The []byte of a tuple of one-character strings.
S(cs) == [k \in 1..Len(cs) |-> B(cs[k])]

\* Go's data[lo:hi] (0-based, hi exclusive).
Slice(d, lo, hi) == SubSeq(d, lo + 1, hi)

\* Go's data[p] (0-based).
At(d, p) == d[p + 1]

\* bytes.HasPrefix(data[pos:], prefix)
HasPrefixAt(d, pos, prefix) ==
    /\ pos + Len(prefix) <= Len(d)
    /\ Slice(d, pos, pos + Len(prefix)) = prefix

\* The buffer after copy(d[lo:], bs): an append through a slice that ends at lo
\* and still has capacity in the same backing array.
WriteAt(d, lo, bs) ==
    [k \in 1..Len(d) |-> IF k > lo /\ k <= lo + Len(bs) THEN bs[k - lo] ELSE d[k]]

isSpace(c) == c \in {B("\t"), B("\n"), B("\f"), B("\r"), B(" ")}

isSpaceR(r) == r \in {B("\t"), B("\n"), B("\f"), B("\r"), B(" ")}

\* bytes.ToLower on ASCII
ToLowerByte(c) == IF c >= B("A") /\ c <= B("Z") THEN c + (B("a") - B("A")) ELSE c

ToLower(d) == [k \in 1..Len(d) |-> ToLowerByte(d[k])]

RECURSIVE TrimLeft(_, _)
TrimLeft(d, cut) ==
    IF Len(d) > 0 /\ d[1] \in cut THEN TrimLeft(Tail(d), cut) ELSE d

RECURSIVE TrimRight(_, _)
TrimRight(d, cut) ==
    IF Len(d) > 0 /\ d[Len(d)] \in cut THEN TrimRight(SubSeq(d, 1, Len(d) - 1), cut) ELSE d

\* bytes.Trim(d, cutset)
Trim(d, cut) == TrimRight(TrimLeft(d, cut), cut)

\* bytes.TrimSpace on ASCII
TrimSpace(d) == Trim(d, {B("\t"), B("\n"), B("\f"), B("\r"), B(" "), 11})

\* bytes.IndexByte(d, c): the 0-based index of the first c, or -1.
IndexByte(d, c) ==
    IF \E k \in 1..Len(d) : d[k] = c
    THEN (CHOOSE k \in 1..Len(d) : d[k] = c /\ \A j \in 1..(k - 1) : d[j] # c) - 1
    ELSE -1

----------------------------------------------------------------------------
(* Errors (errors.go).  An error value is a record; NilErr is Go's nil.    *)

EmptyInputErr == "empty input"
EofErr == "unexpected EOF"
EntityErr == "invalid entity"
TokenErr == "unexpected token"
UnclosedTagErr == "unclosed tag"
EmptyContentErr == "empty token content"
EmptyTagStackErr == "empty tag stack"
TagMismatchErr == "mismatched tags"
AttrKeyErr == "repeated attribute key"

NilErr == [err |-> "nil", line |-> 0, col |-> 0, what |-> "", arg |-> <<>>]

\* fmt.Errorf("%s: <what>: %w ...", loc, err, arg...)
Errorf(l, what, e, arg) ==
    [err |-> e, line |-> l.Line, col |-> l.Col, what |-> what, arg |-> arg]

----------------------------------------------------------------------------
(* Location and the scanning primitive (node.go, lex.go)                   *)

Location(line, col, pos) == [Line |-> line, Col |-> col, Pos |-> pos]

\* stepUntil: pred is given as the function from a byte offset p to
\* pred(data[p:]).
RECURSIVE stepUntil(_, _, _)
stepUntil(l, d, pred) ==
    IF l.Pos < Len(d) /\ ~pred[l.Pos]
    THEN stepUntil(
            IF At(d, l.Pos) = B("\n")
            THEN [Line |-> l.Line + 1, Col |-> 1, Pos |-> l.Pos + 1]
            ELSE IF At(d, l.Pos) # B("\r")
                 THEN [l EXCEPT !.Col = @ + 1, !.Pos = @ + 1]
                 ELSE [l EXCEPT !.Pos = @ + 1],
            d, pred)
    ELSE l

stepUntilPrefix(l, d, prefix) ==
    stepUntil(l, d, [p \in 0..(Len(d) - 1) |-> HasPrefixAt(d, p, prefix)])

commentStart == S(<<"<", "!", "-", "-">>)
commentEnd == S(<<"-", "-", ">">>)
declarationStart == S(<<"<", "!">>)
closeTagStart == S(<<"<", "/">>)
tagStart == S(<<"<">>)
tagEnd == S(<<">">>)

----------------------------------------------------------------------------
(* Lexer (lex.go)                                                          *)

\* token{Kind, Loc, Data}: Data is the slice data[Lo:Hi] of the input buffer
\* (Lo = Hi = 0 for a nil Data).
Token(kind, l, lo, hi) == [Kind |-> kind, Loc |-> l, Lo |-> lo, Hi |-> hi]

\* tok.Data, read through the buffer d it aliases.
TokData(d, tok) == Slice(d, tok.Lo, tok.Hi)

\* The delimited constructs share one shape: skip the opener (Pos only, the
\* column is not advanced), scan to the terminator, fail at end of input.
lexComment(d, l) ==
    LET l1 == [l EXCEPT !.Pos = @ + Len(commentStart)]
        newLoc == stepUntilPrefix(l1, d, commentEnd)
    IN  IF newLoc.Pos >= Len(d)
        THEN [tok |-> Token("invalidToken", l, 0, 0), loc |-> newLoc,
              err |-> Errorf(l1, "error lexing comment", EofErr, <<>>), warn |-> NilErr]
        ELSE [tok |-> Token("commentToken", l, l1.Pos, newLoc.Pos),
              loc |-> [newLoc EXCEPT !.Pos = @ + Len(commentEnd)],
              err |-> NilErr, warn |-> NilErr]

lexDeclaration(d, l) ==
    LET l1 == [l EXCEPT !.Pos = @ + Len(declarationStart)]
        newLoc == stepUntilPrefix(l1, d, tagEnd)
    IN  IF newLoc.Pos >= Len(d)
        THEN [tok |-> Token("invalidToken", l, 0, 0), loc |-> newLoc,
              err |-> Errorf(l1, "error lexing declaration", EofErr, <<>>), warn |-> NilErr]
        ELSE [tok |-> Token("declarationToken", l, l1.Pos, newLoc.Pos),
              loc |-> [newLoc EXCEPT !.Pos = @ + 1],
              err |-> NilErr, warn |-> NilErr]

lexTagClose(d, l) ==
    LET l1 == [l EXCEPT !.Pos = @ + Len(closeTagStart)]
        newLoc == stepUntilPrefix(l1, d, tagEnd)
    IN  IF newLoc.Pos >= Len(d)
        THEN [tok |-> Token("invalidToken", l, 0, 0), loc |-> newLoc,
              err |-> Errorf(l1, "error lexing closing tag", EofErr, <<>>), warn |-> NilErr]
        ELSE [tok |-> Token("tagCloseToken", l, l1.Pos, newLoc.Pos),
              loc |-> [newLoc EXCEPT !.Pos = @ + 1],
              err |-> NilErr, warn |-> NilErr]

lexTagOpen(d, l) ==
    LET l1 == [l EXCEPT !.Pos = @ + 1]
        newLoc == stepUntilPrefix(l1, d, tagEnd)
    IN  IF newLoc.Pos >= Len(d)
        THEN [tok |-> Token("invalidToken", l, 0, 0), loc |-> newLoc,
              err |-> Errorf(l1, "error lexing opening tag", EofErr, <<>>), warn |-> NilErr]
        ELSE IF At(d, newLoc.Pos - 1) = B("/")
        THEN [tok |-> Token("tagSelfcloseToken", l, l1.Pos, newLoc.Pos - 1),
              loc |-> [newLoc EXCEPT !.Pos = @ + 1],
              err |-> NilErr, warn |-> NilErr]
        ELSE [tok |-> Token("tagOpenToken", l, l1.Pos, newLoc.Pos),
              loc |-> [newLoc EXCEPT !.Pos = @ + 1],
              err |-> NilErr, warn |-> NilErr]

\* The unterminated tail of a text or verbatim scan: a warning when it is all
\* whitespace, a fatal error otherwise; no token either way.
lexTail(d, l, newLoc) ==
    IF Len(TrimSpace(Slice(d, l.Pos, newLoc.Pos))) = 0
    THEN [tok |-> Token("invalidToken", l, 0, 0), loc |-> newLoc,
          err |-> NilErr, warn |-> Errorf(l, "error lexing text", EofErr, <<>>)]
    ELSE [tok |-> Token("invalidToken", l, 0, 0), loc |-> newLoc,
          err |-> Errorf(l, "error lexing text", EofErr, <<>>), warn |-> NilErr]

lexText(d, l) ==
    LET newLoc == stepUntilPrefix(l, d, tagStart)
    IN  IF newLoc.Pos >= Len(d)
        THEN lexTail(d, l, newLoc)
        ELSE [tok |-> Token("textToken", l, l.Pos, newLoc.Pos), loc |-> newLoc,
              err |-> NilErr, warn |-> NilErr]

lexVerbatim(d, l, tagName) ==
    LET closeTag == closeTagStart \o tagName \o tagEnd
        newLoc == stepUntilPrefix(l, d, closeTag)
    IN  IF newLoc.Pos >= Len(d)
        THEN lexTail(d, l, newLoc)
        ELSE [tok |-> Token("verbatimToken", l, l.Pos, newLoc.Pos), loc |-> newLoc,
              err |-> NilErr, warn |-> NilErr]

\* The lower-cased bytes of an open tag's data before its first space.
extractTagName(d, tok) ==
    IF tok.Kind # "tagOpenToken"
    THEN <<>>
    ELSE LET td == TokData(d, tok)
             sp == {k \in 1..Len(td) : isSpaceR(td[k])}
             cut == IF sp = {} THEN Len(td)
                    ELSE (CHOOSE k \in sp : \A j \in sp : k <= j) - 1
         IN  ToLower(SubSeq(td, 1, cut))

verbatimTags ==
    { S(<<"s", "c", "r", "i", "p", "t">>), S(<<"s", "t", "y", "l", "e">>), S(<<"p", "r", "e">>) }

inVerbatim(d, toks) ==
    /\ Len(toks) > 0
    /\ toks[Len(toks)].Kind = "tagOpenToken"
    /\ extractTagName(d, toks[Len(toks)]) \in verbatimTags

\* One iteration of the loop of lex: the dispatch on data[loc.Pos].
lexDispatch(d, l, toks) ==
    IF At(d, l.Pos) = B("<")
    THEN IF HasPrefixAt(d, l.Pos, commentStart) THEN lexComment(d, l)
         ELSE IF HasPrefixAt(d, l.Pos, declarationStart) THEN lexDeclaration(d, l)
         ELSE IF HasPrefixAt(d, l.Pos, closeTagStart) THEN lexTagClose(d, l)
         ELSE lexTagOpen(d, l)
    ELSE IF inVerbatim(d, toks)
         THEN \* the warn of lexVerbatim is assigned and never appended
              [lexVerbatim(d, l, extractTagName(d, toks[Len(toks)])) EXCEPT !.warn = NilErr]
         ELSE lexText(d, l)

----------------------------------------------------------------------------
(* Entity decoder (parseEntity, expandEntitys)                             *)

\* The named-entity table: full key, '&' included, to its expansion.  The
\* table's file is not part of the sources at hand; these are entries of the
\* HTML named character references, with and without the ';'.
entityMap ==
    (S(<<"&", "a", "m", "p", ";">>) :> S(<<"&">>)) @@
    (S(<<"&", "a", "m", "p">>) :> S(<<"&">>)) @@
    (S(<<"&", "g", "t", ";">>) :> S(<<">">>)) @@
    (S(<<"&", "g", "t">>) :> S(<<">">>)) @@
    (S(<<"&", "l", "t", ";">>) :> S(<<"<">>)) @@
    (S(<<"&", "l", "t">>) :> S(<<"<">>)) @@
    (S(<<"&", "n", "b", "s", "p", ";">>) :> <<194, 160>>)

longestEntity == 33
shortestEntity == 4
longestNoscEntity == 7
shortestNoscEntity == 33

\* fmt.Errorf("%w: <what>", EntityErr)
entityErr(what) == [err |-> EntityErr, line |-> 0, col |-> 0, what |-> what, arg |-> <<>>]

\* A run-time panic of the Go program (a slice bound out of range).
panicErr == [err |-> "panic", line |-> 0, col |-> 0, what |-> "slice bounds out of range", arg |-> <<>>]

IsDigit(c) == c >= B("0") /\ c <= B("9")

HexVal(c) ==
    IF c >= B("0") /\ c <= B("9") THEN c - B("0")
    ELSE IF c >= B("a") /\ c <= B("f") THEN c - B("a") + 10
    ELSE IF c >= B("A") /\ c <= B("F") THEN c - B("A") + 10
    ELSE -1

RECURSIVE digitsVal(_, _, _)
digitsVal(ds, base, acc) ==
    IF ds = <<>> THEN acc ELSE digitsVal(Tail(ds), base, acc * base + HexVal(ds[1]))

\* strconv.ParseInt(s, base, 0) for base 10 or 16: an optional sign, then
\* one or more digits of the base and nothing else.  The values of the
\* model stay below 2^31, so the out-of-range error of 64-bit values does
\* not arise.
ParseInt(s, base) ==
    LET signed == Len(s) > 0 /\ s[1] \in {B("+"), B("-")}
        ds == IF signed THEN Tail(s) ELSE s
    IN  IF ds = <<>> \/ \E k \in 1..Len(ds) : HexVal(ds[k]) < 0 \/ HexVal(ds[k]) >= base
        THEN [ok |-> FALSE, val |-> 0]
        ELSE [ok |-> TRUE,
              val |-> IF signed /\ s[1] = B("-") THEN 0 - digitsVal(ds, base, 0)
                      ELSE digitsVal(ds, base, 0)]

\* strconv.Atoi(s)
Atoi(s) == ParseInt(s, 10)

\* string(rune(codepoint)): the UTF-8 encoding, U+FFFD for a value that is
\* no Unicode scalar value.
EncodeRune(r) ==
    LET c == IF r < 0 \/ r > 1114111 \/ (r >= 55296 /\ r <= 57343) THEN 65533 ELSE r
    IN  IF c < 128 THEN <<c>>
        ELSE IF c < 2048 THEN <<192 + (c \div 64), 128 + (c % 64)>>
        ELSE IF c < 65536
        THEN <<224 + (c \div 4096), 128 + ((c \div 64) % 64), 128 + (c % 64)>>
        ELSE <<240 + (c \div 262144), 128 + ((c \div 4096) % 64),
               128 + ((c \div 64) % 64), 128 + (c % 64)>>

\* The probe for an entity without ';': the loop over the candidate lengths
\* shortestNoscEntity..longestNoscEntity.  ret marks the early return.
noscEntity(d) ==
    LET hit == {n \in shortestNoscEntity..longestNoscEntity :
                    n > Len(d) \/ Slice(d, 0, n) \in DOMAIN entityMap}
        first == CHOOSE n \in hit : \A m \in hit : n <= m
    IN  IF hit = {}
        THEN [exp |-> <<>>, entityLen |-> 1, err |-> entityErr("no matching entity"), ret |-> FALSE]
        ELSE IF first > Len(d)
        THEN [exp |-> <<>>, entityLen |-> first, err |-> panicErr, ret |-> TRUE]
        ELSE [exp |-> entityMap[Slice(d, 0, first)], entityLen |-> first,
              err |-> entityErr("no terminating semicolon"), ret |-> TRUE]

namedEntity(d, n) ==
    IF Slice(d, 0, n) \in DOMAIN entityMap
    THEN [exp |-> entityMap[Slice(d, 0, n)], entityLen |-> n, err |-> NilErr, ret |-> FALSE]
    ELSE [exp |-> <<>>, entityLen |-> n, err |-> entityErr("no matching entity"), ret |-> FALSE]

\* The decoded character of a parsed number, or the error.
numberResult(n, r, what) ==
    IF r.ok
    THEN [exp |-> EncodeRune(r.val), entityLen |-> n, err |-> NilErr, ret |-> FALSE]
    ELSE [exp |-> <<>>, entityLen |-> n, err |-> entityErr(what), ret |-> FALSE]

\* numberEntity, were the digits taken from the '#' on.
numberEntityFromHash(d, n) == numberResult(n, Atoi(Slice(d, 1, n - 1)), "strconv.Atoi")

numberEntity(d, n) == numberResult(n, Atoi(Slice(d, 2, n - 1)), "strconv.Atoi")

\* The branch taken when data[2] = 'x': the digits are parsed only when
\* data[3] = 'x' too, and then from data[3] on.
hexEntity(d, n) ==
    IF Len(d) <= 3
    THEN [exp |-> <<>>, entityLen |-> n,
          err |-> entityErr("insufficient data for hex number entity"), ret |-> FALSE]
    ELSE IF At(d, 3) = B("x")
    THEN numberResult(n, ParseInt(Slice(d, 3, n - 1), 16), "strconv.ParseInt")
    ELSE [exp |-> <<>>, entityLen |-> n, err |-> NilErr, ret |-> FALSE]

\* The if-else chain of parseEntity on entityLen = n.
entityBranch(d, n) ==
    IF n = 2
    THEN [exp |-> <<>>, entityLen |-> n, err |-> entityErr("empty entity"), ret |-> FALSE]
    ELSE IF n <= 0 \/ n > longestEntity THEN noscEntity(d)
    ELSE IF At(d, 1) # B("#") THEN namedEntity(d, n)
    ELSE IF At(d, 2) # B("x") THEN numberEntity(d, n)
    ELSE hexEntity(d, n)

\* The end of parseEntity, were an empty expansion left empty.
entityResultNoEcho(d, r) == [exp |-> r.exp, entityLen |-> r.entityLen, err |-> r.err]

\* The end of parseEntity: an empty expansion becomes the raw bytes.
entityResult(d, r) ==
    IF ~r.ret /\ r.exp = <<>>
    THEN [exp |-> Slice(d, 0, r.entityLen), entityLen |-> r.entityLen, err |-> r.err]
    ELSE [exp |-> r.exp, entityLen |-> r.entityLen, err |-> r.err]

parseEntity(d) ==
    IF Len(d) < 2
    THEN [exp |-> d, entityLen |-> Len(d), err |-> entityErr("no data")]
    ELSE entityResult(d, entityBranch(d, IndexByte(d, B(";")) + 1))

amp == S(<<"&">>)

\* The state of the loop of expandEntitys: the data left, the buffer, the
\* warnings; in/out keep the last call of parseEntity.
ExpandStart(d) ==
    [data |-> d, buf |-> <<>>, warns |-> <<>>, done |-> FALSE, calls |-> 0,
     in |-> <<>>, out |-> [exp |-> <<>>, entityLen |-> 0, err |-> NilErr]]

\* The part of an iteration after parseEntity(d1) = r, d1 the data from the
\* '&' at l1 on.
expandWith(st, l1, d1, r) ==
    [data |-> Slice(d1, r.entityLen, Len(d1)),
     buf |-> st.buf \o Slice(st.data, 0, l1.Pos) \o r.exp,
     warns |-> IF r.err # NilErr
               THEN Append(st.warns, [r.err EXCEPT !.line = l1.Line, !.col = l1.Col])
               ELSE st.warns,
     done |-> FALSE, calls |-> st.calls + 1, in |-> d1, out |-> r]

expandEntity(st, l1, d1) == expandWith(st, l1, d1, parseEntity(d1))

\* The part of an iteration after the scan for '&' has stopped at l1.
expandAt(st, l1) ==
    IF l1.Pos >= Len(st.data)
    THEN [st EXCEPT !.buf = @ \o Slice(st.data, 0, l1.Pos), !.done = TRUE]
    ELSE expandEntity(st, l1, Slice(st.data, l1.Pos, Len(st.data)))

\* One iteration.  Every iteration scans from the Line and Col of the
\* caller's loc: the loc advanced by the scan is local to the iteration.
expandIter(st, l) == expandAt(st, stepUntilPrefix([l EXCEPT !.Pos = 0], st.data, amp))

RECURSIVE expandLoop(_, _)
expandLoop(st, l) == IF st.done THEN st ELSE expandLoop(expandIter(st, l), l)

expandResult(st) == [bytes |-> st.buf, warns |-> st.warns]

\* expandEntitys(data, loc): the expanded bytes and the warnings.
expandEntitys(d, l) == expandResult(expandLoop(ExpandStart(d), l))

----------------------------------------------------------------------------
(* Tag field splitter and attributes                                       *)

equals == S(<<"=">>)

notSpaces(d) == [p \in 0..(Len(d) - 1) |-> ~isSpace(At(d, p))]

isSpacesOrEquals(d) == [p \in 0..(Len(d) - 1) |-> isSpace(At(d, p)) \/ HasPrefixAt(d, p, equals)]

isQuote(d, quote) == [p \in 0..(Len(d) - 1) |-> At(d, p) = quote]

\* A field under construction is its Loc and its Data as the slice d[Lo:Hi] of
\* the tag's bytes.  append(field.Data, bs...) writes bs at d[Hi:], in place:
\* field.Data is a slice of the tag's bytes with capacity left behind it.
appendField(d, f, bs) ==
    [d |-> WriteAt(d, f.Hi, bs), f |-> [f EXCEPT !.Hi = @ + Len(bs)]]

\* The end of an iteration: the field is appended, the loop goes on from l
\* while l.Pos < len(data).
splitAppend(st, d, f, l, stop) ==
    [d |-> d, loc |-> l, fields |-> Append(st.fields, f), done |-> stop \/ l.Pos >= Len(d)]

splitAppended(st, a, l) == splitAppend(st, a.d, a.f, l, FALSE)

\* A quoted value, the scan for the matching quote stopped at nl0.
splitQuoted(st, d, f, l, nl0) ==
    IF nl0.Pos < Len(d)
    THEN splitAppended(st, appendField(d, f, Slice(d, l.Pos, nl0.Pos + 1)),
                       [nl0 EXCEPT !.Pos = @ + 1])
    ELSE splitAppended(st, appendField(d, f, Slice(d, l.Pos, nl0.Pos)), nl0)

\* An unquoted value, the scan for a space or '=' stopped at newLoc: the bytes
\* are the value unless a '=' follows them.
splitUnquoted(st, d, f, l, newLoc) ==
    IF ~HasPrefixAt(d, newLoc.Pos, equals)
    THEN splitAppended(st, appendField(d, f, Slice(d, l.Pos, newLoc.Pos)), newLoc)
    ELSE splitAppend(st, d, f, newLoc, FALSE)

\* The value, l5 at its first byte.
splitValue(st, d, f, l5) ==
    IF l5.Pos >= Len(d)
    THEN splitAppend(st, d, f, l5, TRUE)
    ELSE IF At(d, l5.Pos) = B("\"") \/ At(d, l5.Pos) = B("'")
    THEN splitQuoted(st, d, f, l5,
                     stepUntil([l5 EXCEPT !.Pos = @ + 1, !.Col = @ + 1], d,
                               isQuote(d, At(d, l5.Pos))))
    ELSE splitUnquoted(st, d, f, l5, stepUntil(l5, d, isSpacesOrEquals(d)))

\* After '=' was appended to the field (a) and stepped over (l4).
splitAssign(st, a, l4) ==
    IF l4.Pos >= Len(a.d)
    THEN splitAppend(st, a.d, a.f, l4, TRUE)
    ELSE splitValue(st, a.d, a.f, stepUntil(l4, a.d, notSpaces(a.d)))

\* After the key f0 and the spaces behind it, l3 at the next byte.
splitEquals(st, f0, l3) ==
    IF l3.Pos >= Len(st.d)
    THEN splitAppend(st, st.d, f0, l3, TRUE)
    ELSE IF ~HasPrefixAt(st.d, l3.Pos, equals)
    THEN splitAppend(st, st.d, f0, l3, FALSE)
    ELSE splitAssign(st, appendField(st.d, f0, equals),
                     [l3 EXCEPT !.Pos = @ + Len(equals), !.Col = @ + Len(equals)])

\* The key: from l1 to the space or '=' at l2.
splitKey(st, l1, l2) ==
    IF l2.Pos >= Len(st.d)
    THEN splitAppend(st, st.d, [Loc |-> l1, Lo |-> l1.Pos, Hi |-> l2.Pos], l2, TRUE)
    ELSE splitEquals(st, [Loc |-> l1, Lo |-> l1.Pos, Hi |-> l2.Pos],
                     stepUntil(l2, st.d, notSpaces(st.d)))

\* After the leading spaces, l1 at the first byte of the field.
splitField(st, l1) ==
    IF l1.Pos >= Len(st.d)
    THEN [st EXCEPT !.loc = l1, !.done = TRUE]
    ELSE splitKey(st, l1, stepUntil(l1, st.d, isSpacesOrEquals(st.d)))

\* One iteration of the loop of splitTagFields over st = [d, loc, fields, done].
splitIter(st) == splitField(st, stepUntil(st.loc, st.d, notSpaces(st.d)))

RECURSIVE splitLoop(_)
splitLoop(st) == IF st.done THEN st ELSE splitLoop(splitIter(st))

splitResult(st) ==
    [fields |-> [k \in 1..Len(st.fields) |->
                    [Loc |-> st.fields[k].Loc,
                     Data |-> Slice(st.d, st.fields[k].Lo, st.fields[k].Hi)]],
     d |-> st.d]

\* splitTagFields(data, loc): the fields, each with its Loc and its Data read
\* from the bytes as the function leaves them, and those bytes (d).
splitTagFields(d, l) ==
    splitResult(splitLoop([d |-> d, loc |-> [l EXCEPT !.Pos = 0], fields |-> <<>>,
                           done |-> Len(d) = 0]))

attrValue(keyData, e) == [key |-> keyData, val |-> e.bytes, warns |-> e.warns]

\* The attribute of a field with '=' at index c: the value trimmed of quotes
\* and entity-expanded, its Loc advanced over the key and '='.
attrCut(field, c) ==
    attrValue(Slice(field.Data, 0, c),
              expandEntitys(Trim(Slice(field.Data, c + 1, Len(field.Data)), {B("\""), B("'")}),
                            [field.Loc EXCEPT !.Pos = c + Len(equals),
                                              !.Col = @ + c + Len(equals)]))

\* parseAttr(field): bytes.Cut at the first '='.
parseAttr(field) ==
    IF IndexByte(field.Data, B("=")) >= 0
    THEN attrCut(field, IndexByte(field.Data, B("=")))
    ELSE [key |-> field.Data, val |-> <<>>, warns |-> <<>>]

----------------------------------------------------------------------------
(* Parser: the node builders                                               *)

unpairedTags ==
    { S(<<"a", "r", "e", "a">>), S(<<"b", "a", "s", "e">>), S(<<"b", "r">>),
      S(<<"c", "o", "l", "g", "r", "o", "u", "p">>), S(<<"c", "o", "l">>),
      S(<<"e", "m", "b", "e", "d">>), S(<<"h", "r">>), S(<<"i", "m", "a", "g", "e">>),
      S(<<"i", "m", "g">>), S(<<"i", "n", "p", "u", "t">>), S(<<"l", "i", "n", "k">>),
      S(<<"m", "e", "t", "a">>), S(<<"p", "a", "r", "a", "m">>),
      S(<<"s", "o", "u", "r", "c", "e">>), S(<<"t", "r", "a", "c", "k">>),
      S(<<"w", "b", "r">>) }

\* A nil map[string]string, and an empty one.
NoAttrs == [k \in {} |-> <<>>]

\* &Node{Kind, Loc, Content}; Children are indices into the arena of nodes.
Node(kind, l, content) ==
    [Kind |-> kind, Content |-> content, Attrs |-> NoAttrs, Children |-> <<>>, Loc |-> l]

parseComment(d, tok) ==
    [node |-> Node("CommentNode", tok.Loc, TokData(d, tok)), err |-> NilErr,
     warns |-> <<>>, data |-> d]

parseDeclaration(d, tok) ==
    IF Len(TrimSpace(TokData(d, tok))) = 0
    THEN [node |-> Node("DeclarationNode", tok.Loc, <<>>),
          err |-> Errorf(tok.Loc, "error parsing declaration", EmptyContentErr, <<>>),
          warns |-> <<>>, data |-> d]
    ELSE [node |-> Node("DeclarationNode", tok.Loc, TrimSpace(TokData(d, tok))),
          err |-> NilErr, warns |-> <<>>, data |-> d]

parseVerbatim(d, tok) ==
    [node |-> Node("TextNode", tok.Loc, TokData(d, tok)), err |-> NilErr,
     warns |-> <<>>, data |-> d]

textNode(d, tok, e) ==
    [node |-> Node("TextNode", tok.Loc, e.bytes), err |-> NilErr, warns |-> e.warns, data |-> d]

parseText(d, tok) ==
    IF tok.Hi - tok.Lo = 0
    THEN [node |-> Node("TextNode", tok.Loc, <<>>),
          err |-> Errorf(tok.Loc, "error parsing text", EmptyContentErr, <<>>),
          warns |-> <<>>, data |-> d]
    ELSE textNode(d, tok, expandEntitys(TokData(d, tok), tok.Loc))

\* parseCloseTag, were an empty name not an error.
parseCloseTagNoCheck(d, tok) ==
    [node |-> Node("InvalidNode", tok.Loc, TrimSpace(TokData(d, tok))),
     err |-> NilErr, warns |-> <<>>, data |-> d]

\* parseCloseTag, were the name of the close tag lower-cased.
parseCloseTagLower(d, tok) ==
    IF Len(TrimSpace(TokData(d, tok))) = 0
    THEN [node |-> Node("InvalidNode", tok.Loc, <<>>),
          err |-> Errorf(tok.Loc, "error parsing closing tag", EmptyContentErr, <<>>),
          warns |-> <<>>, data |-> d]
    ELSE [node |-> Node("InvalidNode", tok.Loc, ToLower(TrimSpace(TokData(d, tok)))),
          err |-> NilErr, warns |-> <<>>, data |-> d]

parseCloseTag(d, tok) ==
    IF Len(TrimSpace(TokData(d, tok))) = 0
    THEN [node |-> Node("InvalidNode", tok.Loc, <<>>),
          err |-> Errorf(tok.Loc, "error parsing closing tag", EmptyContentErr, <<>>),
          warns |-> <<>>, data |-> d]
    ELSE [node |-> Node("InvalidNode", tok.Loc, TrimSpace(TokData(d, tok))),
          err |-> NilErr, warns |-> <<>>, data |-> d]

\* The iteration, were a repeated key to take the later value.
attrAddLast(field, attrs, ws, a) ==
    IF a.key \in DOMAIN attrs
    THEN [attrs |-> (a.key :> a.val) @@ attrs,
          warns |-> Append(ws, Errorf(field.Loc, "repeated key", AttrKeyErr, <<a.key>>)) \o a.warns]
    ELSE [attrs |-> attrs @@ (a.key :> a.val), warns |-> ws \o a.warns]

\* One iteration of the loop of parseOpenTag over fields[1:], a the attribute
\* of the field: the first occurrence of a key is kept, a repeated key is a
\* warning; the warnings of the value follow.
attrAdd(field, attrs, ws, a) ==
    IF a.key \in DOMAIN attrs
    THEN [attrs |-> attrs,
          warns |-> Append(ws, Errorf(field.Loc, "repeated key", AttrKeyErr, <<a.key>>)) \o a.warns]
    ELSE [attrs |-> attrs @@ (a.key :> a.val), warns |-> ws \o a.warns]

RECURSIVE attrLoop(_, _, _)
attrLoop(fields, k, acc) ==
    IF k > Len(fields) THEN acc
    ELSE attrLoop(fields, k + 1, attrAdd(fields[k], acc.attrs, acc.warns, parseAttr(fields[k])))

elementNode(d, tok, name, al) ==
    [node |-> [Node("ElementNode", tok.Loc, name) EXCEPT !.Attrs = al.attrs],
     err |-> NilErr, warns |-> al.warns, data |-> d]

\* parseOpenTag after splitTagFields(tok.Data, tok.Loc) = sp.  tok.Data is a
\* slice of the input buffer: what splitTagFields wrote is in the buffer.
openTagNode(d, tok, sp) ==
    IF Len(sp.fields) = 0
    THEN [node |-> Node("ElementNode", tok.Loc, <<>>),
          err |-> Errorf(tok.Loc, "error parsing opening tag", EmptyContentErr, <<>>),
          warns |-> <<>>, data |-> WriteAt(d, tok.Lo, sp.d)]
    ELSE elementNode(WriteAt(d, tok.Lo, sp.d), tok, ToLower(sp.fields[1].Data),
                     attrLoop(sp.fields, 2, [attrs |-> NoAttrs, warns |-> <<>>]))

parseOpenTag(d, tok) == openTagNode(d, tok, splitTagFields(TokData(d, tok), tok.Loc))

\* The switch of parse on tok.Kind, up to the node built.
parseSwitch(d, tok) ==
    CASE tok.Kind = "commentToken" -> parseComment(d, tok)
      [] tok.Kind = "declarationToken" -> parseDeclaration(d, tok)
      [] tok.Kind = "verbatimToken" -> parseVerbatim(d, tok)
      [] tok.Kind = "textToken" -> parseText(d, tok)
      [] tok.Kind \in {"tagSelfcloseToken", "tagOpenToken"} -> parseOpenTag(d, tok)
      [] tok.Kind = "tagCloseToken" -> parseCloseTag(d, tok)
      [] OTHER -> [node |-> Node("InvalidNode", tok.Loc, <<>>),
                   err |-> Errorf(tok.Loc, "error parsing document", TokenErr, <<>>),
                   warns |-> <<>>, data |-> d]

\* stack.Peek and stack.Pop (errors.go)
Peek(stk) == stk[Len(stk)]

\* Pop, were it to leave the top where it is.
PopNothing(stk) == stk

Pop(stk) == SubSeq(stk, 1, Len(stk) - 1)

\* parseAppend, were every Element pushed, the unpaired ones too.
parseAppendPushAll(nds, stk, tok, r) ==
    IF r.err # NilErr
    THEN [nodes |-> nds, tags |-> stk, warns |-> <<>>, data |-> r.data, err |-> r.err]
    ELSE IF tok.Kind = "tagCloseToken" /\ r.node.Content = nds[Peek(stk)].Content
    THEN [nodes |-> nds, tags |-> Pop(stk), warns |-> <<>>, data |-> r.data, err |-> NilErr]
    ELSE [nodes |-> Append([nds EXCEPT ![Peek(stk)].Children = Append(@, Len(nds) + 1)], r.node),
          tags |-> IF r.node.Kind = "ElementNode" THEN Append(stk, Len(nds) + 1) ELSE stk,
          warns |-> IF tok.Kind = "tagCloseToken"
                    THEN Append(r.warns,
                                Errorf(r.node.Loc, "error parsing closing tag", TagMismatchErr,
                                       <<nds[Peek(stk)].Content, r.node.Content>>))
                    ELSE r.warns,
          data |-> r.data, err |-> NilErr]

\* parseAppend, were the node appended to the bottom of the stack.
parseAppendToBottom(nds, stk, tok, r) ==
    IF r.err # NilErr
    THEN [nodes |-> nds, tags |-> stk, warns |-> <<>>, data |-> r.data, err |-> r.err]
    ELSE IF tok.Kind = "tagCloseToken" /\ r.node.Content = nds[Peek(stk)].Content
    THEN [nodes |-> nds, tags |-> Pop(stk), warns |-> <<>>, data |-> r.data, err |-> NilErr]
    ELSE [nodes |-> Append([nds EXCEPT ![stk[1]].Children = Append(@, Len(nds) + 1)], r.node),
          tags |-> IF r.node.Kind = "ElementNode" /\ r.node.Content \notin unpairedTags
                   THEN Append(stk, Len(nds) + 1) ELSE stk,
          warns |-> IF tok.Kind = "tagCloseToken"
                    THEN Append(r.warns,
                                Errorf(r.node.Loc, "error parsing closing tag", TagMismatchErr,
                                       <<nds[Peek(stk)].Content, r.node.Content>>))
                    ELSE r.warns,
          data |-> r.data, err |-> NilErr]

\* parseAppend, were the Element of a self-closing tag not pushed.
parseAppendOpenOnly(nds, stk, tok, r) ==
    IF r.err # NilErr
    THEN [nodes |-> nds, tags |-> stk, warns |-> <<>>, data |-> r.data, err |-> r.err]
    ELSE IF tok.Kind = "tagCloseToken" /\ r.node.Content = nds[Peek(stk)].Content
    THEN [nodes |-> nds, tags |-> Pop(stk), warns |-> <<>>, data |-> r.data, err |-> NilErr]
    ELSE [nodes |-> Append([nds EXCEPT ![Peek(stk)].Children = Append(@, Len(nds) + 1)], r.node),
          tags |-> IF tok.Kind = "tagOpenToken" /\ r.node.Content \notin unpairedTags
                   THEN Append(stk, Len(nds) + 1) ELSE stk,
          warns |-> IF tok.Kind = "tagCloseToken"
                    THEN Append(r.warns,
                                Errorf(r.node.Loc, "error parsing closing tag", TagMismatchErr,
                                       <<nds[Peek(stk)].Content, r.node.Content>>))
                    ELSE r.warns,
          data |-> r.data, err |-> NilErr]

\* The part of an iteration of the loop of parse after the switch built r:
\* a close tag equal to the top's Content pops; any other node built without
\* error is appended to the top's Children, and pushed when it is an Element
\* of a paired name.
parseAppend(nds, stk, tok, r) ==
    IF r.err # NilErr
    THEN [nodes |-> nds, tags |-> stk, warns |-> <<>>, data |-> r.data, err |-> r.err]
    ELSE IF tok.Kind = "tagCloseToken" /\ r.node.Content = nds[Peek(stk)].Content
    THEN [nodes |-> nds, tags |-> Pop(stk), warns |-> <<>>, data |-> r.data, err |-> NilErr]
    ELSE [nodes |-> Append([nds EXCEPT ![Peek(stk)].Children = Append(@, Len(nds) + 1)], r.node),
          tags |-> IF r.node.Kind = "ElementNode" /\ r.node.Content \notin unpairedTags
                   THEN Append(stk, Len(nds) + 1) ELSE stk,
          warns |-> IF tok.Kind = "tagCloseToken"
                    THEN Append(r.warns,
                                Errorf(r.node.Loc, "error parsing closing tag", TagMismatchErr,
                                       <<nds[Peek(stk)].Content, r.node.Content>>))
                    ELSE r.warns,
          data |-> r.data, err |-> NilErr]

\* One iteration of the loop of parse for a token other than Eof, on the
\* arena nds and the stack stk.
parseIter(d, nds, stk, tok) ==
    IF Len(stk) = 0
    THEN [nodes |-> nds, tags |-> stk, warns |-> <<>>, data |-> d,
          err |-> Errorf(tok.Loc, "error parsing document", EmptyTagStackErr, <<>>)]
    ELSE parseAppend(nds, stk, tok, parseSwitch(d, tok))

\* parseTail, were the outermost unclosed element the one it names.
parseTailOutermost(nds, stk, toks) ==
    IF Len(stk) > 1
    THEN <<Errorf(nds[stk[2]].Loc, "error parsing document", UnclosedTagErr,
                  <<nds[stk[2]].Content>>)>>
    ELSE IF Len(stk) < 1
    THEN <<Errorf(toks[Len(toks)].Loc, "error parsing document", EmptyTagStackErr, <<>>)>>
    ELSE <<>>

\* The warnings parse adds after its loop.
parseTail(nds, stk, toks) ==
    IF Len(stk) > 1
    THEN <<Errorf(nds[Peek(stk)].Loc, "error parsing document", UnclosedTagErr,
                  <<nds[Peek(stk)].Content>>)>>
    ELSE IF Len(stk) < 1
    THEN <<Errorf(toks[Len(toks)].Loc, "error parsing document", EmptyTagStackErr, <<>>)>>
    ELSE <<>>

----------------------------------------------------------------------------
(* The inputs of Parse                                                     *)

\* The inputs are the concatenations of at most MaxPieces pieces, and the
\* documents of Examples.
MaxPieces == 3

Pieces ==
    { S(<<"<", "a", ">">>),
      S(<<"<", "/", "a", ">">>),
      S(<<"<", "B", ">">>),
      S(<<"<", "/", "b", ">">>),
      S(<<"<", "b", "r", ">">>),
      S(<<"<", "p", "r", "e", ">">>),
      S(<<"<", "/", "p", "r", "e", ">">>),
      S(<<"x">>),
      S(<<" ">>),
      S(<<"<", "!", "-", "-">>),
      S(<<"-", "-", ">">>),
      S(<<"<", "!">>),
      S(<<">">>),
      S(<<"<">>),
      S(<<"&", "a", "m", "p", ";">>),
      S(<<"/", ">">>) }

Examples ==
    { S(<<"<", "a", ">", "x", "<", "/", "a", ">">>),
      S(<<"<", "b", "r", ">", "<", "p", ">", "x", "<", "/", "p", ">">>),
      S(<<"<", "a", ">", "<", "b", ">", "x", "<", "/", "c", ">", "<", "/", "a", ">">>),
      S(<<"<", "s", "c", "r", "i", "p", "t", ">", "1", " ", "<", " ", "2", " ", "&", " ", "m", "o", "r", "e", "<", "/", "s", "c", "r", "i", "p", "t", ">">>),
      S(<<"<", "B", "R", ">", "<", "p", ">", "x", "<", "/", "p", ">">>),
      S(<<"<", "p", "r", "e", ">", "<", "a", ">", "x", "<", "/", "p", "r", "e", ">">>),
      S(<<"<", "D", "I", "V", ">", "x", "<", "/", "D", "I", "V", ">">>),
      S(<<"<", "a", " ", "k", "=", "v", "=", "w", ">">>),
      S(<<"<", "a", " ", "k", " ", "=", " ", "v", ">", "y", "<", "/", "a", ">">>),
      S(<<"<", "x", "/", ">", "y">>),
      S(<<"<", "a", " ", "k", "=", "1", " ", "k", "=", "2", ">">>),
      S(<<"<", "a", ">", "<", "!", ">", "<", "/", "a", ">">>),
      S(<<"<", "i", ">", "&", "#", "6", "5", ";", "&", "g", "t", "<", "/", "i", ">", "\n">>),
      S(<<"<", "P", "R", "E", ">", "x", "<", "/", "P", "R", "E", ">">>),
      S(<<"<", "a", ">", "<", "b", ">", "x", "<", "/", "b", ">", "y", "<", "/", "a", ">", "<", "b", "r", ">">>),
      S(<<"<", " ", ">", "<", "/", " ", ">">>),
      S(<<"<", "a", " ", "k", "=", "1", " ", "j", " ", "k", "=", "2", " ", "k", ">">>),
      S(<<"<", "!", "-", "-", " ", "c", " ", "-", "-", ">", "<", "!", " ", "d", " ", ">">>),
      S(<<"<", "a", ">", "x", "<", "/", "a">>),
      S(<<"<", "a", ">", "<", "/", "b", ">", "<", "!", ">", "<", "p", ">">>),
      S(<<"<", "a", " ", "k", "=", "v", "=", "w", ">">>),
      S(<<"<", "x", "/", ">", "y", "<", "/", "x", ">", "<", "p", ">">>),
      S(<<"<", "x", "/", ">", "y", "<", "b", "r", ">">>),
      S(<<"<", "b", "r", "/", ">", "<", "a", ">">>) }

RECURSIVE Concats(_, _)
Concats(ps, n) ==
    IF n = 0 THEN {<<>>}
    ELSE Concats(ps, n - 1) \cup {p \o q : p \in Concats(ps, n - 1), q \in ps}

Inputs == Concats(Pieces, MaxPieces) \cup Examples

----------------------------------------------------------------------------
(* Parse (gohtml.go): lex, then parse                                      *)

NilNode == 0

docNode == 1

\* No method of Node is being called.
NoQuery ==
    [op |-> "none", tag |-> [Name |-> <<>>, Attrs |-> NoAttrs], prune |-> FALSE,
     recv |-> NilNode, stk |-> <<>>, matches |-> <<>>, contents |-> <<>>,
     out |-> NilNode, ok |-> FALSE, str |-> <<>>, done |-> FALSE, chained |-> FALSE]

\* What Parse returns: node is NilNode or the index of the Document node.
Return(node, err, ws) == [node |-> node, err |-> err, warns |-> ws]

Init ==
    /\ input \in Inputs
    /\ data = input
    /\ pc = "lex"
    /\ loc = Location(1, 1, 0)
    /\ tokens = <<>>
    /\ lexErr = NilErr
    /\ lexWarns = <<>>
    /\ nodes = <<>>
    /\ tags = <<>>
    /\ i = 0
    /\ warns = <<>>
    /\ ret = Return(NilNode, NilErr, <<>>)
    /\ ent = ExpandStart(<<>>)
    /\ qry = NoQuery

\* lex on an empty input: EmptyInputErr, and Parse returns its node as it is.
LexEmpty ==
    /\ pc = "lex"
    /\ Len(data) = 0
    /\ lexErr' = Errorf(Location(0, 0, 0), "", EmptyInputErr, <<>>)
    /\ ret' = Return(NilNode, lexErr', lexWarns)
    /\ pc' = "done"
    /\ UNCHANGED <<input, data, loc, tokens, lexWarns, nodes, tags, i, warns, ent, qry>>

\* The iteration, were the token of a failed construct appended too.
LexApplyAppend(r) ==
    /\ loc' = r.loc
    /\ lexWarns' = IF r.warn # NilErr THEN Append(lexWarns, r.warn) ELSE lexWarns
    /\ tokens' = Append(tokens, r.tok)
    /\ IF r.err # NilErr
       THEN /\ lexErr' = r.err
            /\ ret' = Return(NilNode, r.err, lexWarns')
            /\ pc' = "done"
       ELSE UNCHANGED <<lexErr, ret, pc>>
    /\ UNCHANGED <<input, data, nodes, tags, i, warns, ent, qry>>

\* The effect of one iteration of the loop of lex, r its outcome.  On a fatal
\* error lex returns, and Parse returns its own node, which nothing has
\* assigned yet.
LexApply(r) ==
    /\ loc' = r.loc
    /\ lexWarns' = IF r.warn # NilErr THEN Append(lexWarns, r.warn) ELSE lexWarns
    /\ IF r.err # NilErr
       THEN /\ lexErr' = r.err
            /\ ret' = Return(NilNode, r.err, lexWarns')
            /\ pc' = "done"
            /\ UNCHANGED tokens
       ELSE /\ tokens' = IF r.tok.Kind # "invalidToken" THEN Append(tokens, r.tok) ELSE tokens
            /\ UNCHANGED <<lexErr, ret, pc>>
    /\ UNCHANGED <<input, data, nodes, tags, i, warns, ent, qry>>

\* case '<': a comment, a declaration, a closing or an opening tag.
LexTag ==
    /\ pc = "lex"
    /\ loc.Pos < Len(data)
    /\ At(data, loc.Pos) = B("<")
    /\ LexApply(lexDispatch(data, loc, tokens))

\* default: a verbatim scan after the open tag of a verbatim element, a text
\* scan otherwise.
LexChars ==
    /\ pc = "lex"
    /\ loc.Pos < Len(data)
    /\ At(data, loc.Pos) # B("<")
    /\ LexApply(lexDispatch(data, loc, tokens))

\* The end of lex, were the Eof token left out.
LexEofNoToken ==
    /\ pc = "lex"
    /\ Len(data) > 0
    /\ loc.Pos >= Len(data)
    /\ nodes' = <<Node("DocumentNode", Location(0, 0, 0), <<>>)>>
    /\ tags' = <<docNode>>
    /\ i' = 0
    /\ pc' = "parse"
    /\ UNCHANGED <<input, data, loc, tokens, lexErr, lexWarns, warns, ret, ent, qry>>

\* The end of lex: the Eof token; Parse calls parse, which allocates the
\* Document node and pushes it.
LexEof ==
    /\ pc = "lex"
    /\ Len(data) > 0
    /\ loc.Pos >= Len(data)
    /\ tokens' = Append(tokens, Token("eofToken", loc, 0, 0))
    /\ nodes' = <<Node("DocumentNode", Location(0, 0, 0), <<>>)>>
    /\ tags' = <<docNode>>
    /\ i' = 0
    /\ pc' = "parse"
    /\ UNCHANGED <<input, data, loc, lexErr, lexWarns, warns, ret, ent, qry>>

\* The iteration, were the end-of-input warning added on a fatal error too.
ParseApplyTail(r) ==
    /\ data' = r.data
    /\ nodes' = r.nodes
    /\ tags' = r.tags
    /\ IF r.err # NilErr
       THEN /\ pc' = "done"
            /\ ret' = Return(docNode, r.err, lexWarns \o warns \o parseTail(r.nodes, r.tags, tokens))
            /\ UNCHANGED <<i, warns>>
       ELSE /\ i' = i + 1
            /\ warns' = warns \o r.warns
            /\ UNCHANGED <<pc, ret>>
    /\ UNCHANGED <<input, loc, tokens, lexErr, lexWarns, ent, qry>>

\* The effect of one iteration of the loop of parse, r its outcome.  A fatal
\* error returns the Document with the warnings collected before the token.
ParseApply(r) ==
    /\ data' = r.data
    /\ nodes' = r.nodes
    /\ tags' = r.tags
    /\ IF r.err # NilErr
       THEN /\ pc' = "done"
            /\ ret' = Return(docNode, r.err, lexWarns \o warns)
            /\ UNCHANGED <<i, warns>>
       ELSE /\ i' = i + 1
            /\ warns' = warns \o r.warns
            /\ UNCHANGED <<pc, ret>>
    /\ UNCHANGED <<input, loc, tokens, lexErr, lexWarns, ent, qry>>

\* The loop of parse is at a token of one of kinds.
AtToken(kinds) ==
    /\ pc = "parse"
    /\ i < Len(tokens)
    /\ tokens[i + 1].Kind \in kinds

\* One iteration of the loop of parse on a comment, a declaration, a verbatim
\* or a text token.
ParseContent ==
    /\ AtToken({"commentToken", "declarationToken", "verbatimToken", "textToken"})
    /\ ParseApply(parseIter(data, nodes, tags, tokens[i + 1]))

\* One iteration on an opening or a self-closing tag.
ParseOpenTag ==
    /\ AtToken({"tagOpenToken", "tagSelfcloseToken"})
    /\ ParseApply(parseIter(data, nodes, tags, tokens[i + 1]))

\* One iteration on a closing tag.
ParseCloseTag ==
    /\ AtToken({"tagCloseToken"})
    /\ ParseApply(parseIter(data, nodes, tags, tokens[i + 1]))

\* The Eof token (or the end of the token list) ends the loop; parse adds the
\* warning for what the stack holds and returns, and Parse returns.
ParseEof ==
    /\ pc = "parse"
    /\ i >= Len(tokens) \/ tokens[i + 1].Kind = "eofToken"
    /\ IF i < Len(tokens) /\ Len(tags) = 0
       THEN /\ ret' = Return(docNode,
                             Errorf(tokens[i + 1].Loc, "error parsing document", EmptyTagStackErr, <<>>),
                             lexWarns \o warns)
            /\ UNCHANGED warns
       ELSE /\ warns' = warns \o parseTail(nodes, tags, tokens)
            /\ ret' = Return(docNode, NilErr, lexWarns \o warns')
    /\ pc' = "done"
    /\ UNCHANGED <<input, data, loc, tokens, lexErr, lexWarns, nodes, tags, i, ent, qry>>

Next ==
    \/ LexEmpty
    \/ LexTag
    \/ LexChars
    \/ LexEof
    \/ ParseContent
    \/ ParseOpenTag
    \/ ParseCloseTag
    \/ ParseEof

Spec == Init /\ [][Next]_vars

----------------------------------------------------------------------------
(* expandEntitys on its own: the bytes of a text or of an attribute value  *)

\* The inputs are the concatenations of at most MaxEntPieces pieces, and the
\* strings of EntExamples.
MaxEntPieces == 3

EntPieces ==
    { S(<<"&", "#">>), S(<<"&", "#", "x">>), S(<<"6", "5", ";">>), S(<<"4", "1", ";">>), S(<<";">>), S(<<"&", "a", "m", "p">>), S(<<"&", "g", "t">>), S(<<"&">>), S(<<"x">>), S(<<"9">>),
      S(<<"a">>), S(<<" ">>) }

EntExamples ==
    { S(<<"&", "#", "1", "1", "1", "4", "1", "1", "2", ";">>), S(<<"&", "#", "5", "5", "2", "9", "6", ";">>), S(<<"&", "#", "+", "6", "5", ";">>), S(<<"&", "#", "-", "5", ";">>), S(<<"&", "n", "b", "s", "p", ";">>), S(<<"&", "l", "t", ";", "b", "&", "g", "t", ";">>),
      S(<<"&", "#", "1", "2", "8", ";">>), S(<<"&", "#", "8", "3", "6", "4", ";">>), S(<<"&", "#", "1", "2", "8", "5", "1", "2", ";">>), S(<<"&", "b", "o", "g", "u", "s", ";">>), S(<<"a", "&", "a", "m", "p", ";", "b", "&", "a", "m", "p">>),
      S(<<"&", "#", "x", "4", "1", ";", "&", "#", "6", "5", ";">>), S(<<"&", "#", "x", "Z", ";">>), S(<<"&", "#", "0", ";">>),
      S(<<"&", "#", "0", "0", "0", "0", "0", "0", "0", "0", "0", "0", "0", "0", "0", "0", "0", "0", "0", "0", "0", "0", "0", "0", "0", "0", "0", "0", "0", "0", "0", "6", "5", ";">>),
      S(<<"&", "#", "x", "0", "0", "0", "0", "0", "0", "0", "0", "0", "0", "0", "0", "0", "0", "0", "0", "0", "0", "0", "0", "0", "0", "0", "0", "0", "0", "0", "0", "4", "1", ";">>),
      S(<<"&", "#", "6", "5", "&", "#", "0", "0", "0", "0", "0", "0", "0", "0", "0", "0", "0", "0", "0", "0", "0", "0", "0", "0", "0", "0", "0", "0", "0", "0", "0", "0", "0", "0", ";">>) }

EntityInputs == Concats(EntPieces, MaxEntPieces) \cup EntExamples

InitEntity ==
    /\ input \in EntityInputs
    /\ data = input
    /\ pc = "entity"
    /\ loc = Location(1, 1, 0)
    /\ tokens = <<>>
    /\ lexErr = NilErr
    /\ lexWarns = <<>>
    /\ nodes = <<>>
    /\ tags = <<>>
    /\ i = 0
    /\ warns = <<>>
    /\ ret = Return(NilNode, NilErr, <<>>)
    /\ ent = ExpandStart(input)
    /\ qry = NoQuery

\* An iteration of the loop of expandEntitys that finds a '&': the bytes
\* before it are written, parseEntity is called on the bytes from it on.
ExpandEntity ==
    /\ pc = "entity"
    /\ IndexByte(ent.data, B("&")) >= 0
    /\ ent' = expandIter(ent, loc)
    /\ UNCHANGED <<input, data, pc, loc, tokens, lexErr, lexWarns, nodes, tags, i, warns, ret, qry>>

\* The last iteration: no '&' is left, the rest is written, the loop breaks.
ExpandBreak ==
    /\ pc = "entity"
    /\ IndexByte(ent.data, B("&")) < 0
    /\ ent' = expandIter(ent, loc)
    /\ pc' = "entityDone"
    /\ UNCHANGED <<input, data, loc, tokens, lexErr, lexWarns, nodes, tags, i, warns, ret, qry>>

NextEntity ==
    \/ ExpandEntity
    \/ ExpandBreak

SpecEntity == InitEntity /\ [][NextEntity]_vars

----------------------------------------------------------------------------
(* Properties of Parse: the returned tree                                  *)

\* C1: for every input, the empty buffer and the inputs on which lexing
\* fails fatally included, the tree Parse returns is a non-nil Document.
C1_TreeNeverNil == pc = "done" => ret.node # NilNode

----------------------------------------------------------------------------
(* Properties of parse: well-nested tags                                   *)

\* The names of the tags of a token, read from the bytes Parse was given: an
\* open tag's lower-cased first field, a close tag's trimmed bytes.
FirstField(fields) == IF fields = <<>> THEN <<>> ELSE ToLower(fields[1].Data)

OpenName(tok) == FirstField(splitTagFields(TokData(input, tok), tok.Loc).fields)

CloseName(tok) == TrimSpace(TokData(input, tok))

IsOpen(tok) == tok.Kind \in {"tagOpenToken", "tagSelfcloseToken"}

\* A token of which parse builds a node to append.
Builds(tok) == tok.Kind \notin {"tagCloseToken", "eofToken"}

\* The nesting of the tags of toks[1..k]: open holds the indices of the open
\* tags of non-void names not closed yet, innermost last; ok is false once a
\* close tag has not named the innermost open tag.
NestStep(st, toks, k) ==
    IF ~st.ok THEN st
    ELSE IF IsOpen(toks[k])
    THEN IF OpenName(toks[k]) \in unpairedTags THEN st
         ELSE [ok |-> TRUE, open |-> Append(st.open, k)]
    ELSE IF toks[k].Kind = "tagCloseToken"
    THEN IF st.open # <<>> /\ CloseName(toks[k]) = OpenName(toks[st.open[Len(st.open)]])
         THEN [ok |-> TRUE, open |-> SubSeq(st.open, 1, Len(st.open) - 1)]
         ELSE [ok |-> FALSE, open |-> st.open]
    ELSE st

RECURSIVE Nest(_, _)
Nest(toks, k) ==
    IF k = 0 THEN [ok |-> TRUE, open |-> <<>>] ELSE NestStep(Nest(toks, k - 1), toks, k)

WellNested(toks) == Nest(toks, Len(toks)) = [ok |-> TRUE, open |-> <<>>]

\* The index in the arena of the node built from toks[k], when every token
\* before it that builds a node was appended.
NodeOf(toks, k) == 1 + Cardinality({j \in 1..k : Builds(toks[j])})

InnerOpen(toks, open) == IF open = <<>> THEN docNode ELSE NodeOf(toks, open[Len(open)])

\* The node whose open and close tag enclose toks[k] most closely.
ParentOf(toks, k) == InnerOpen(toks, Nest(toks, k - 1).open)

NodesOf(toks, ks) == [j \in 1..Len(ks) |-> NodeOf(toks, ks[j])]

\* The nodes built from the tokens directly between the tags of node n, in
\* token order.
NodesBetween(toks, n) ==
    NodesOf(toks, SelectSeq([k \in 1..Len(toks) |-> k],
                            LAMBDA k : Builds(toks[k]) /\ ParentOf(toks, k) = n))

\* What parse gives for a well-nested token list.
ParsedAsNested ==
    /\ ret.err = NilErr
    /\ \A w \in 1..Len(ret.warns) : ret.warns[w].err \notin {TagMismatchErr, UnclosedTagErr}
    /\ tags = <<docNode>>
    /\ Len(nodes) = NodeOf(tokens, Len(tokens))
    /\ \A k \in 1..Len(tokens) :
          Builds(tokens[k]) => nodes[NodeOf(tokens, k)].Loc = tokens[k].Loc
    /\ \A n \in 1..Len(nodes) : nodes[n].Children = NodesBetween(tokens, n)

\* A token whose content is empty where parse requires some.
EmptyContent(tok) ==
    \/ tok.Kind \in {"declarationToken", "tagCloseToken"} /\ TrimSpace(TokData(input, tok)) = <<>>
    \/ IsOpen(tok) /\ splitTagFields(TokData(input, tok), tok.Loc).fields = <<>>
    \/ tok.Kind = "textToken" /\ tok.Hi = tok.Lo

\* parse has run to its end, on the tokens of lex.
ParseDone == pc = "done" /\ nodes # <<>>

\* C2, as stated: for every token list whose open tags of non-void names are
\* closed in properly nested order by close tags of the same lower-cased
\* name, parse returns no fatal error, no tag-mismatch and no unclosed-tag
\* warning, ends with the Document alone on the stack, and the children of
\* each node are the nodes built from the tokens between its tags, in order.
C2_WellNestedParses == (ParseDone /\ WellNested(tokens)) => ParsedAsNested

\* C2, amended: the same for the well-nested token lists in which no
\* declaration, open tag, close tag or text is empty.
C2_WellNestedNonEmptyParses ==
    (ParseDone /\ WellNested(tokens) /\ \A k \in 1..Len(tokens) : ~EmptyContent(tokens[k]))
        => ParsedAsNested

\* "<a><b>x</b>y</a><br>" is parsed to Document -> (a -> (b -> x, y), br).
C2_Witness ==
    /\ ParseDone
    /\ input = S(<<"<", "a", ">", "<", "b", ">", "x", "<", "/", "b", ">", "y", "<", "/", "a", ">", "<", "b", "r", ">">>)
    /\ WellNested(tokens)
    /\ tags = <<docNode>>
    /\ nodes[1].Children = <<2, 6>>
    /\ nodes[2].Children = <<3, 5>>
    /\ nodes[3].Children = <<4>>
    /\ nodes[4].Content = S(<<"x">>)

----------------------------------------------------------------------------
(* Properties of parse: void elements                                      *)

IsVoid(node) == node.Kind = "ElementNode" /\ ToLower(node.Content) \in unpairedTags

\* C3: in every state of parse, whatever the letter case of the tag in the
\* input, no Element of a void name is on the stack of open elements, and
\* every such Element has no children.
C3_VoidNeverOpen ==
    /\ \A k \in 1..Len(tags) : ~IsVoid(nodes[tags[k]])
    /\ \A n \in 1..Len(nodes) : IsVoid(nodes[n]) => nodes[n].Children = <<>>

\* In "<BR><p>x</p>" br and p are siblings under the Document.
C3_Witness ==
    /\ ParseDone
    /\ input = S(<<"<", "B", "R", ">", "<", "p", ">", "x", "<", "/", "p", ">">>)
    /\ nodes[1].Children = <<2, 3>>
    /\ nodes[2].Content = S(<<"b", "r">>)
    /\ IsVoid(nodes[2])
    /\ nodes[2].Children = <<>>
    /\ nodes[3].Content = S(<<"p">>)
    /\ nodes[3].Children = <<4>>

----------------------------------------------------------------------------
(* Properties of parse: a close tag that does not name the top             *)

\* The loop of parse is at a close tag whose trimmed name is not empty and
\* is not the content of the top of the stack.
AtMismatch ==
    /\ AtToken({"tagCloseToken"})
    /\ Len(tags) > 0
    /\ TrimSpace(TokData(data, tokens[i + 1])) # <<>>
    /\ TrimSpace(TokData(data, tokens[i + 1])) # nodes[Peek(tags)].Content

\* C4: a close tag that does not name the top of the stack adds exactly one
\* tag-mismatch warning and changes nothing else: the stack is unchanged and
\* no node is appended to any node's children.
C4_MismatchChangesNothingElse ==
    [][AtMismatch =>
          /\ Len(warns') = Len(warns) + 1
          /\ warns'[Len(warns')].err = TagMismatchErr
          /\ tags' = tags
          /\ nodes' = nodes]_vars

Ex5 == S(<<"<", "a", ">", "<", "b", ">", "x", "<", "/", "c", ">", "<", "/", "a", ">">>)

MismatchWarnings(ws) == {w \in 1..Len(ws) : ws[w].err = TagMismatchErr}

OnStack(name) == \E k \in 1..Len(tags) : nodes[tags[k]].Content = name

\* C5, as stated: on "<a><b>x</c></a>" the </c> is dropped with a warning,
\* the </a> after it pops a, and b is the element named in the unclosed-tag
\* warning at the end of the input.
C5_CloseAPopsA ==
    (input = Ex5 /\ pc = "done") =>
        /\ Cardinality(MismatchWarnings(ret.warns)) = 1
        /\ ~OnStack(S(<<"a">>))
        /\ \E w \in 1..Len(ret.warns) :
              ret.warns[w].err = UnclosedTagErr /\ ret.warns[w].arg = <<S(<<"b">>)>>

\* C5, amended: on "<a><b>x</c></a>" the </c> gives a tag-mismatch warning
\* and leaves the stack Document, a, b unchanged; so does the </a> after it,
\* the top being b still: a is not popped; at the end of the input b, the
\* top, is the element named in the one unclosed-tag warning.
C5_CloseALeavesA ==
    input = Ex5 =>
        /\ (pc = "parse" /\ i >= 3) => tags = <<docNode, 2, 3>>
        /\ (pc = "parse" /\ i = 3) => warns = <<>>
        /\ (pc = "parse" /\ i = 4) =>
              /\ Len(warns) = 1
              /\ warns[1].err = TagMismatchErr
              /\ warns[1].arg = <<S(<<"b">>), S(<<"c">>)>>
        /\ (pc = "parse" /\ i = 5) =>
              /\ Len(warns) = 2
              /\ warns[2].err = TagMismatchErr
              /\ warns[2].arg = <<S(<<"b">>), S(<<"a">>)>>
        /\ pc = "done" =>
              /\ ret.err = NilErr
              /\ tags = <<docNode, 2, 3>>
              /\ nodes[2].Content = S(<<"a">>)
              /\ nodes[3].Content = S(<<"b">>)
              /\ Len(ret.warns) = 3
              /\ ret.warns[3].err = UnclosedTagErr
              /\ ret.warns[3].arg = <<S(<<"b">>)>>

C5_Witness ==
    /\ input = Ex5
    /\ pc = "done"
    /\ OnStack(S(<<"a">>))
    /\ Cardinality(MismatchWarnings(ret.warns)) = 2
    /\ ret.warns[3].err = UnclosedTagErr

----------------------------------------------------------------------------
(* Properties of Parse: verbatim elements                                  *)

OpenTagOf(t) == tagStart \o t \o tagEnd

CloseTagOf(t) == closeTagStart \o t \o tagEnd

\* d is the open tag of t in some letter case, a body of n bytes that holds
\* no closing tag of t, and the closing tag of t.
IsVerbatimDoc(d, t, n) ==
    /\ n >= 1
    /\ Len(d) = Len(OpenTagOf(t)) + n + Len(CloseTagOf(t))
    /\ ToLower(Slice(d, 0, Len(OpenTagOf(t)))) = OpenTagOf(t)
    /\ ToLower(Slice(d, Len(d) - Len(CloseTagOf(t)), Len(d))) = CloseTagOf(t)
    /\ \A p \in Len(OpenTagOf(t))..(Len(d) - Len(CloseTagOf(t)) - 1) :
          ~HasPrefixAt(ToLower(d), p, CloseTagOf(t))

VerbatimBody(d, t, n) == Slice(d, Len(OpenTagOf(t)), Len(OpenTagOf(t)) + n)

\* C6: when an open tag named script, style or pre, in any letter case, is
\* followed by a non-empty body and its closing tag, the element has exactly
\* one child, a Text whose content is the raw bytes of the body, whatever
\* the first byte of the body.
C6_VerbatimBodyIsOneText ==
    \A t \in verbatimTags : \A n \in 1..Len(input) :
        (pc = "done" /\ IsVerbatimDoc(input, t, n)) =>
            /\ ret.node = docNode
            /\ ret.err = NilErr
            /\ Len(nodes) = 3
            /\ nodes[1].Children = <<2>>
            /\ nodes[2].Kind = "ElementNode"
            /\ nodes[2].Content = t
            /\ nodes[2].Children = <<3>>
            /\ nodes[3].Kind = "TextNode"
            /\ nodes[3].Content = VerbatimBody(input, t, n)
            /\ nodes[3].Children = <<>>

----------------------------------------------------------------------------
(* Properties of parseEntity: ent.in is the data of its last call, ent.out *)
(* what it returned                                                        *)

\* The bytes up to and including the first ';' (0 when there is none).
RefLen(d) == IndexByte(d, B(";")) + 1

\* The value of a string of decimal digits.
RECURSIVE DecimalValue(_)
DecimalValue(ds) ==
    IF ds = <<>> THEN 0
    ELSE 10 * DecimalValue(SubSeq(ds, 1, Len(ds) - 1)) + (ds[Len(ds)] - B("0"))

\* The value of a string of hexadecimal digits.
RECURSIVE HexValue(_)
HexValue(ds) ==
    IF ds = <<>> THEN 0
    ELSE 16 * HexValue(SubSeq(ds, 1, Len(ds) - 1)) + HexVal(ds[Len(ds)])

\* The character of a code point, as its UTF-8 bytes.
Utf8(c) ==
    IF c < 128 THEN <<c>>
    ELSE IF c < 2048 THEN <<192 + (c \div 64), 128 + (c % 64)>>
    ELSE IF c < 65536
    THEN <<224 + (c \div 4096), 128 + ((c \div 64) % 64), 128 + (c % 64)>>
    ELSE <<240 + (c \div 262144), 128 + ((c \div 4096) % 64),
           128 + ((c \div 64) % 64), 128 + (c % 64)>>

IsScalarValue(c) == c >= 0 /\ c <= 1114111 /\ ~(c >= 55296 /\ c <= 57343)

\* d begins with a named reference of the table, its ';' included.
NamedRef(d) == RefLen(d) > 0 /\ Slice(d, 0, RefLen(d)) \in DOMAIN entityMap

\* d begins with "&#D;", D a non-empty string of decimal digits.
DecimalRef(d) ==
    /\ RefLen(d) >= 4
    /\ Slice(d, 0, 2) = S(<<"&", "#">>)
    /\ \A k \in 3..(RefLen(d) - 1) : IsDigit(d[k])

\* d begins with "&#xH;", H a non-empty string of hexadecimal digits.
HexRef(d) ==
    /\ RefLen(d) >= 5
    /\ Slice(d, 0, 3) = S(<<"&", "#", "x">>)
    /\ \A k \in 4..(RefLen(d) - 1) : HexVal(d[k]) >= 0

\* parseEntity decoded the reference at the head of d to exp, consumed the
\* reference and returned no warning.
Decoded(d, out, exp) == out = [exp |-> exp, entityLen |-> RefLen(d), err |-> NilErr]

\* C7, as stated: for data beginning with a named reference of the table or
\* with a decimal reference "&#D;", parseEntity returns the table's value,
\* respectively the character of code point D (when D is the code of one),
\* consumes the bytes up to and including the ';' and returns no warning.
C7_ReferencesDecode ==
    ent.calls > 0 =>
        /\ NamedRef(ent.in) =>
              Decoded(ent.in, ent.out, entityMap[Slice(ent.in, 0, RefLen(ent.in))])
        /\ DecimalRef(ent.in) =>
              /\ ent.out.entityLen = RefLen(ent.in)
              /\ ent.out.err = NilErr
              /\ IsScalarValue(DecimalValue(Slice(ent.in, 2, RefLen(ent.in) - 1))) =>
                    ent.out.exp = Utf8(DecimalValue(Slice(ent.in, 2, RefLen(ent.in) - 1)))

\* C7, amended: the same for the named references and for the decimal
\* references of at most longestEntity bytes whose D is the code of a
\* Unicode scalar value.
C7_ShortReferencesDecode ==
    ent.calls > 0 =>
        /\ NamedRef(ent.in) =>
              Decoded(ent.in, ent.out, entityMap[Slice(ent.in, 0, RefLen(ent.in))])
        /\ ( /\ DecimalRef(ent.in)
             /\ RefLen(ent.in) <= longestEntity
             /\ IsScalarValue(DecimalValue(Slice(ent.in, 2, RefLen(ent.in) - 1))) ) =>
              Decoded(ent.in, ent.out,
                      Utf8(DecimalValue(Slice(ent.in, 2, RefLen(ent.in) - 1))))

\* "&#x41;&#65;": the last call, on "&#65;", returned "A" and consumed 5.
C7_Witness ==
    /\ ent.calls = 2
    /\ ent.in = S(<<"&", "#", "6", "5", ";">>)
    /\ DecimalRef(ent.in)
    /\ ent.out = [exp |-> S(<<"A">>), entityLen |-> 5, err |-> NilErr]

\* C8: for data beginning with a hexadecimal reference "&#xH;", parseEntity
\* returns the character of code point H, consumes the bytes up to and
\* including the ';' and returns no warning.
C8_HexReferencesDecode ==
    (ent.calls > 0 /\ HexRef(ent.in) /\ RefLen(ent.in) <= longestEntity) =>
        Decoded(ent.in, ent.out, Utf8(HexValue(Slice(ent.in, 3, RefLen(ent.in) - 1))))

\* C9: whenever the expansion parseEntity returns for data starting with
\* '&' is the echo of the raw bytes it consumed, the warning it returns is
\* an EntityErr.
C9_EchoHasWarning ==
    ( /\ ent.calls > 0
      /\ ent.in[1] = B("&")
      /\ ent.out.exp = Slice(ent.in, 0, ent.out.entityLen) ) =>
        ent.out.err.err = EntityErr

\* The lengths of the prefixes of d that are keys of the table without ';'.
NoscMatches(d) ==
    {n \in 1..Len(d) : Slice(d, 0, n) \in DOMAIN entityMap /\ d[n] # B(";")}

\* C10: when the data has no ';' within longestEntity bytes and a prefix of
\* it is a key of the table without ';', parseEntity returns the expansion
\* of such a key, consumes that prefix and returns the warning of a missing
\* semicolon; when no prefix is one, it returns the warning of an unmatched
\* entity and consumes 1 byte.
C10_LegacyNamesDecode ==
    ( /\ ent.calls > 0
      /\ Len(ent.in) >= 2
      /\ RefLen(ent.in) = 0 \/ RefLen(ent.in) > longestEntity ) =>
        IF NoscMatches(ent.in) # {}
        THEN \E n \in NoscMatches(ent.in) :
                ent.out = [exp |-> entityMap[Slice(ent.in, 0, n)], entityLen |-> n,
                           err |-> entityErr("no terminating semicolon")]
        ELSE /\ ent.out.entityLen = 1
             /\ ent.out.err = entityErr("no matching entity")

\* ---------------------------------------------------------------------
\* node.go: the methods of Node.  A *Node is an index into the arena nodes;
\* a call keeps its locals in qry, and each iteration of its loop is a step.

\* EmptyNode were it to return a Document.
EmptyNodeDocument == Node("DocumentNode", Location(0, 0, 0), <<>>)

EmptyNode == Node("InvalidNode", Location(0, 0, 0 - 1), <<>>)

Tag(name, attrs) == [Name |-> name, Attrs |-> attrs]

\* MatchTag, were it to compare the names only.
MatchTagNameOnly(node, tag) == node.Kind = "ElementNode" /\ node.Content = tag.Name

MatchTag(node, tag) ==
    IF node.Kind # "ElementNode" \/ node.Content # tag.Name
    THEN FALSE
    ELSE \A key \in DOMAIN tag.Attrs :
            key \in DOMAIN node.Attrs /\ node.Attrs[key] = tag.Attrs[key]

\* The locals of a call of op on the node recv: the stack holds the receiver.
QueryStart(op, tag, prune, recv, chained) ==
    [op |-> op, tag |-> tag, prune |-> prune, recv |-> recv, stk |-> <<recv>>,
     matches |-> <<>>, contents |-> <<>>, out |-> NilNode, ok |-> FALSE,
     str |-> <<>>, done |-> FALSE, chained |-> chained]

\* The push loop, were it to run from the first child to the last.
pushChildrenForward(stk, children, k) == stk \o children

\* for i := len(node.Children) - 1; i >= 0; i-- { stk.Push(node.Children[i]) }
\* with k the 1-based index of the child to push next.
RECURSIVE pushChildren(_, _, _)
pushChildren(stk, children, k) ==
    IF k < 1 THEN stk ELSE pushChildren(Append(stk, children[k]), children, k - 1)

\* The node popped is not returned from: its children are pushed.
descend(nds, q) ==
    [q EXCEPT !.stk = pushChildren(Pop(q.stk), nds[Peek(q.stk)].Children,
                                   Len(nds[Peek(q.stk)].Children))]

\* One iteration of the loop of Find: the node popped is returned or descended.
findIter(nds, q) ==
    IF nds[Peek(q.stk)].Kind = "ElementNode" /\ nds[Peek(q.stk)].Content = q.tag.Name
    THEN [q EXCEPT !.stk = Pop(q.stk), !.out = Peek(q.stk), !.done = TRUE]
    ELSE descend(nds, q)

\* One iteration of the loop of FindTag.
findTagIter(nds, q) ==
    IF nds[Peek(q.stk)].Kind = "ElementNode" /\ MatchTag(nds[Peek(q.stk)], q.tag)
    THEN [q EXCEPT !.stk = Pop(q.stk), !.out = Peek(q.stk), !.done = TRUE]
    ELSE descend(nds, q)

\* matches = append(matches, node), and the continue of prune.
collect(nds, q) ==
    IF q.prune
    THEN [q EXCEPT !.stk = Pop(q.stk), !.matches = Append(q.matches, Peek(q.stk))]
    ELSE descend(nds, [q EXCEPT !.matches = Append(q.matches, Peek(q.stk))])

\* One iteration of FindAll, were prune never to continue.
findAllIterNoPrune(nds, q) ==
    IF nds[Peek(q.stk)].Kind = "ElementNode" /\ nds[Peek(q.stk)].Content = q.tag.Name
    THEN descend(nds, [q EXCEPT !.matches = Append(q.matches, Peek(q.stk))])
    ELSE descend(nds, q)

\* One iteration of the loop of FindAll.
findAllIter(nds, q) ==
    IF nds[Peek(q.stk)].Kind = "ElementNode" /\ nds[Peek(q.stk)].Content = q.tag.Name
    THEN collect(nds, q)
    ELSE descend(nds, q)

\* One iteration of the loop of FindTagAll.
findTagAllIter(nds, q) ==
    IF nds[Peek(q.stk)].Kind = "ElementNode" /\ MatchTag(nds[Peek(q.stk)], q.tag)
    THEN collect(nds, q)
    ELSE descend(nds, q)

\* One iteration of Text, were the content of every node appended.
textIterAll(nds, q) ==
    descend(nds, [q EXCEPT !.contents = Append(q.contents, nds[Peek(q.stk)].Content)])

\* One iteration of the loop of Text.
textIter(nds, q) ==
    IF nds[Peek(q.stk)].Kind = "TextNode"
    THEN descend(nds, [q EXCEPT !.contents = Append(q.contents, nds[Peek(q.stk)].Content)])
    ELSE descend(nds, q)

\* strings.Join(contents, "")
RECURSIVE Join(_)
Join(contents) ==
    IF contents = <<>> THEN <<>> ELSE Head(contents) \o Join(Tail(contents))

\* FindAll as a function: the loop run until the stack is empty.
RECURSIVE findAllLoop(_, _)
findAllLoop(nds, q) ==
    IF q.stk = <<>> THEN q.matches ELSE findAllLoop(nds, findAllIter(nds, q))

FindAll(nds, recv, tagName, prune) ==
    findAllLoop(nds, QueryStart("FindAll", Tag(tagName, NoAttrs), prune, recv, FALSE))

\* FindTagAll as a function.
RECURSIVE findTagAllLoop(_, _)
findTagAllLoop(nds, q) ==
    IF q.stk = <<>> THEN q.matches ELSE findTagAllLoop(nds, findTagAllIter(nds, q))

FindTagAll(nds, recv, tag, prune) ==
    findTagAllLoop(nds, QueryStart("FindTagAll", tag, prune, recv, FALSE))
\* ---------------------------------------------------------------------
\* The trees the methods are called on, and the calls.

MaxNodes == 4

\* What a node of a tree is: an Element a without attributes, an Element b
\* with two, a Text whose content is the name a, another Text, a Comment.
Labels ==
    { [Kind |-> "ElementNode", Content |-> S(<<"a">>), Attrs |-> NoAttrs],
      [Kind |-> "ElementNode", Content |-> S(<<"b">>),
       Attrs |-> (S(<<"k">>) :> S(<<"v">>)) @@ (S(<<"j">>) :> S(<<"u">>))],
      [Kind |-> "TextNode", Content |-> S(<<"a">>), Attrs |-> NoAttrs],
      [Kind |-> "TextNode", Content |-> S(<<"x">>), Attrs |-> NoAttrs],
      [Kind |-> "CommentNode", Content |-> S(<<"c">>), Attrs |-> NoAttrs] }

\* The arena of a tree: the Children of k are the nodes whose parent is k, in
\* the order of allocation.
Tree(n, p, l) ==
    [k \in 1..n |->
        [Kind |-> l[k].Kind, Content |-> l[k].Content, Attrs |-> l[k].Attrs,
         Children |-> SelectSeq([j \in 1..n |-> j], LAMBDA j : p[j] = k),
         Loc |-> Location(0, 0, 0)]]

\* The trees of at most MaxNodes nodes: each node but the root, the receiver,
\* has a parent allocated before it, and, as in the trees parse builds, only
\* the Document and the Elements have children.  The root may be the Document.
Trees ==
    UNION { { Tree(n, x[1], x[2]) :
                x \in { y \in [1..n -> 0..(n - 1)]
                              \X [1..n -> Labels \cup {[Kind |-> "DocumentNode", Content |-> <<>>,
                                                        Attrs |-> NoAttrs]}] :
                            /\ y[1][1] = 0
                            /\ \A j \in 2..n :
                                  /\ y[1][j] >= 1 /\ y[1][j] < j
                                  /\ y[2][j] \in Labels
                                  /\ y[2][y[1][j]].Kind \in {"DocumentNode", "ElementNode"} } } :
            n \in 1..MaxNodes }

Names == {S(<<"a">>), S(<<"b">>)}

\* The patterns: no attribute, one the Element b has, one whose value it
\* has not, one whose key it has not.
Patterns ==
    { Tag(name, attrs) : name \in Names,
                         attrs \in {NoAttrs, (S(<<"k">>) :> S(<<"v">>)), (S(<<"k">>) :> S(<<"u">>)), (S(<<"i">>) :> S(<<"v">>))} }

Calls ==
    { [op |-> "Find", tag |-> Tag(name, NoAttrs), prune |-> FALSE] : name \in Names }
    \cup { [op |-> "FindTag", tag |-> tag, prune |-> FALSE] : tag \in Patterns }
    \cup { [op |-> "FindAll", tag |-> Tag(name, NoAttrs), prune |-> prune] :
             name \in Names, prune \in BOOLEAN }
    \cup { [op |-> "FindTagAll", tag |-> tag, prune |-> prune] :
             tag \in Patterns, prune \in BOOLEAN }
    \cup { [op |-> "Text", tag |-> Tag(<<>>, NoAttrs), prune |-> FALSE] }

parseVars == <<input, data, pc, loc, tokens, lexErr, lexWarns, tags, i, warns, ret, ent>>

InitQuery ==
    /\ nodes \in Trees
    /\ qry = NoQuery
    /\ pc = "query"
    /\ input = <<>>
    /\ data = <<>>
    /\ loc = Location(1, 1, 0)
    /\ tokens = <<>>
    /\ lexErr = NilErr
    /\ lexWarns = <<>>
    /\ tags = <<>>
    /\ i = 0
    /\ warns = <<>>
    /\ ret = Return(NilNode, NilErr, <<>>)
    /\ ent = ExpandStart(<<>>)

\* A caller calls a finder or Text on the root of the tree, nodes[1].
CallMethod ==
    /\ pc = "query"
    /\ qry.op = "none"
    /\ \E c \in Calls : qry' = QueryStart(c.op, c.tag, c.prune, 1, FALSE)
    /\ UNCHANGED <<nodes, parseVars>>

\* A chained call, as in docNode.Find("title").Text(): Find or Text is called
\* on the node Find or FindTag returned.
CallOnResult ==
    /\ pc = "query"
    /\ qry.op \in {"Find", "FindTag"}
    /\ qry.done
    /\ ~qry.chained
    /\ \E c \in {d \in Calls : d.op \in {"Find", "Text"}} :
          qry' = QueryStart(c.op, c.tag, c.prune, qry.out, TRUE)
    /\ UNCHANGED <<nodes, parseVars>>

\* A caller calls MatchTag on a node of the tree.
CallMatchTag ==
    /\ pc = "query"
    /\ qry.op = "none"
    /\ \E n \in 1..Len(nodes), tag \in Patterns :
          qry' = [QueryStart("MatchTag", tag, FALSE, n, FALSE) EXCEPT
                     !.stk = <<>>, !.ok = MatchTag(nodes[n], tag), !.done = TRUE]
    /\ UNCHANGED <<nodes, parseVars>>

FindNext ==
    /\ pc = "query" /\ qry.op = "Find" /\ ~qry.done /\ qry.stk # <<>>
    /\ qry' = findIter(nodes, qry)
    /\ UNCHANGED <<nodes, parseVars>>

\* return EmptyNode(): a node is allocated, no node of the tree points to it.
FindNone ==
    /\ pc = "query" /\ qry.op = "Find" /\ ~qry.done /\ qry.stk = <<>>
    /\ nodes' = Append(nodes, EmptyNode)
    /\ qry' = [qry EXCEPT !.out = Len(nodes) + 1, !.done = TRUE]
    /\ UNCHANGED parseVars

FindTagNext ==
    /\ pc = "query" /\ qry.op = "FindTag" /\ ~qry.done /\ qry.stk # <<>>
    /\ qry' = findTagIter(nodes, qry)
    /\ UNCHANGED <<nodes, parseVars>>

FindTagNone ==
    /\ pc = "query" /\ qry.op = "FindTag" /\ ~qry.done /\ qry.stk = <<>>
    /\ nodes' = Append(nodes, EmptyNode)
    /\ qry' = [qry EXCEPT !.out = Len(nodes) + 1, !.done = TRUE]
    /\ UNCHANGED parseVars

FindAllNext ==
    /\ pc = "query" /\ qry.op = "FindAll" /\ ~qry.done /\ qry.stk # <<>>
    /\ qry' = findAllIter(nodes, qry)
    /\ UNCHANGED <<nodes, parseVars>>

\* return matches
FindAllReturn ==
    /\ pc = "query" /\ qry.op = "FindAll" /\ ~qry.done /\ qry.stk = <<>>
    /\ qry' = [qry EXCEPT !.done = TRUE]
    /\ UNCHANGED <<nodes, parseVars>>

FindTagAllNext ==
    /\ pc = "query" /\ qry.op = "FindTagAll" /\ ~qry.done /\ qry.stk # <<>>
    /\ qry' = findTagAllIter(nodes, qry)
    /\ UNCHANGED <<nodes, parseVars>>

FindTagAllReturn ==
    /\ pc = "query" /\ qry.op = "FindTagAll" /\ ~qry.done /\ qry.stk = <<>>
    /\ qry' = [qry EXCEPT !.done = TRUE]
    /\ UNCHANGED <<nodes, parseVars>>

TextNext ==
    /\ pc = "query" /\ qry.op = "Text" /\ ~qry.done /\ qry.stk # <<>>
    /\ qry' = textIter(nodes, qry)
    /\ UNCHANGED <<nodes, parseVars>>

\* return strings.Join(contents, "")
TextReturn ==
    /\ pc = "query" /\ qry.op = "Text" /\ ~qry.done /\ qry.stk = <<>>
    /\ qry' = [qry EXCEPT !.str = Join(qry.contents), !.done = TRUE]
    /\ UNCHANGED <<nodes, parseVars>>

NextQuery ==
    \/ CallMethod
    \/ CallOnResult
    \/ CallMatchTag
    \/ FindNext
    \/ FindNone
    \/ FindTagNext
    \/ FindTagNone
    \/ FindAllNext
    \/ FindAllReturn
    \/ FindTagAllNext
    \/ FindTagAllReturn
    \/ TextNext
    \/ TextReturn

SpecQuery == InitQuery /\ [][NextQuery]_vars

\* ---------------------------------------------------------------------
\* The subtree of a node, told from the tree and not from the searches.

RECURSIVE PreOrder(_, _)
RECURSIVE PreOrderOf(_, _)

\* The nodes of the subtree rooted at n in depth-first pre-order, n first.
PreOrder(nds, n) == <<n>> \o PreOrderOf(nds, nds[n].Children)

\* The pre-order of the subtrees of the siblings ns, one after the other.
PreOrderOf(nds, ns) ==
    IF ns = <<>> THEN <<>> ELSE PreOrder(nds, Head(ns)) \o PreOrderOf(nds, Tail(ns))

Range(s) == { s[k] : k \in 1..Len(s) }

\* The nodes of the subtree rooted at n.
Below(nds, n) == Range(PreOrder(nds, n))

\* An Element of the subtree rooted at n has the name.
Carried(nds, n, name) ==
    \E e \in Below(nds, n) : nds[e].Kind = "ElementNode" /\ nds[e].Content = name

\* The node n is pointed to by no node, and is not the root of the tree.
Fresh(nds, n) ==
    /\ n \in 2..Len(nds)
    /\ \A k \in 1..Len(nds) : n \notin Range(nds[k].Children)

\* The node n is as the sentinel is said to be.
IsSentinel(nds, n) ==
    /\ n # NilNode
    /\ nds[n].Kind = "InvalidNode"
    /\ nds[n].Children = <<>>
    /\ nds[n].Content = <<>>
    /\ Fresh(nds, n)

\* A call of the method op has returned.
Returned(op) == pc = "query" /\ qry.op = op /\ qry.done

\* C11: when no Element of the searched subtree has the name, Find(name) and
\* FindTag(pattern) return a non-nil node of Kind Invalid with no children
\* and an empty content, newly allocated (no node of the tree points to it
\* and it is not the receiver); and a Find or a Text called on that node
\* returns, Find the same kind of node again, Text the empty string.
C11_NotFoundIsEmptyNode ==
    /\ (Returned("Find") \/ Returned("FindTag")) /\ ~Carried(nodes, qry.recv, qry.tag.Name)
       => IsSentinel(nodes, qry.out) /\ qry.out # qry.recv
    /\ Returned("Text") /\ qry.chained /\ Fresh(nodes, qry.recv)
       => qry.str = <<>>

\* A Text chained on the result of a Find that found nothing in a tree of
\* four nodes has returned.
C11_Witness ==
    /\ Returned("Text")
    /\ qry.chained
    /\ Fresh(nodes, qry.recv)
    /\ nodes[qry.recv].Kind = "InvalidNode"
    /\ Len(PreOrder(nodes, 1)) = 4
    /\ \E e \in Below(nodes, 1) : nodes[e].Kind = "ElementNode"

\* a is a proper ancestor of d in the tree.
IsAncestor(nds, a, d) == a # d /\ d \in Below(nds, a)

\* The list a search has returned, were it called without prune.
Unpruned ==
    IF qry.op = "FindAll"
    THEN FindAll(nodes, qry.recv, qry.tag.Name, FALSE)
    ELSE FindTagAll(nodes, qry.recv, qry.tag, FALSE)

\* C12: no two entries of FindAll(name, prune=true) are in an
\* ancestor/descendant relation, and every entry of it is an entry of
\* FindAll(name, prune=false); the same for FindTagAll with any pattern.
C12_PrunedIsFlatSubset ==
    (Returned("FindAll") \/ Returned("FindTagAll")) /\ qry.prune
    => /\ \A a, d \in Range(qry.matches) : ~IsAncestor(nodes, a, d)
       /\ Range(qry.matches) \subseteq Range(Unpruned)

\* A pruned search has returned an entry and has left out a nested match the
\* unpruned search returns.
C12_Witness ==
    /\ Returned("FindTagAll")
    /\ qry.prune
    /\ qry.matches # <<>>
    /\ qry.tag.Attrs # NoAttrs
    /\ \E d \in Range(Unpruned) : \E a \in Range(qry.matches) : IsAncestor(nodes, a, d)

\* The Elements of the subtree rooted at n that have the name, in pre-order.
Named(nds, n, name) ==
    SelectSeq(PreOrder(nds, n),
              LAMBDA e : nds[e].Kind = "ElementNode" /\ nds[e].Content = name)

RECURSIVE TextOf(_, _)
RECURSIVE TextOfAll(_, _)

\* The text of the subtree rooted at n: the content of n when n is a Text,
\* then the text of its children, from the first to the last.
TextOf(nds, n) ==
    (IF nds[n].Kind = "TextNode" THEN nds[n].Content ELSE <<>>)
        \o TextOfAll(nds, nds[n].Children)

TextOfAll(nds, ns) ==
    IF ns = <<>> THEN <<>> ELSE TextOf(nds, Head(ns)) \o TextOfAll(nds, Tail(ns))

\* C14: Text() is the concatenation, without separator and in depth-first
\* pre-order, of the content of every Text node of the subtree rooted at the
\* receiver, the receiver included; comments, element names and attribute
\* values add nothing.
C14_TextIsTextNodes == Returned("Text") => qry.str = TextOf(nodes, qry.recv)

\* Text has returned "xa" on an Element with attributes whose children are
\* the Text x, a Comment and the Text a.
C14_Witness ==
    /\ Returned("Text")
    /\ ~qry.chained
    /\ qry.str = S(<<"x", "a">>)
    /\ nodes[1].Kind = "ElementNode"
    /\ nodes[1].Attrs # NoAttrs
    /\ \E c \in Below(nodes, 1) : nodes[c].Kind = "CommentNode"

\* The (key, value) pairs of an attrs mapping.
Pairs(attrs) == { <<key, attrs[key]>> : key \in DOMAIN attrs }

\* C15: MatchTag(pattern) is true exactly when the node is an Element, its
\* content is pattern.Name and every (key, value) pair of pattern.Attrs is a
\* pair of the node's attrs; and FindTagAll with a pattern without attrs
\* returns the list FindAll returns with the pattern's name.
C15_MatchTagIsSubsetMatch ==
    /\ Returned("MatchTag")
       => qry.ok = (/\ nodes[qry.recv].Kind = "ElementNode"
                    /\ nodes[qry.recv].Content = qry.tag.Name
                    /\ Pairs(qry.tag.Attrs) \subseteq Pairs(nodes[qry.recv].Attrs))
    /\ Returned("FindTagAll") /\ qry.tag.Attrs = NoAttrs
       => qry.matches = FindAll(nodes, qry.recv, qry.tag.Name, qry.prune)

\* MatchTag has returned true for a pattern with an attribute on an Element
\* that has one attribute more.
C15_Witness ==
    /\ Returned("MatchTag")
    /\ qry.ok
    /\ qry.tag.Attrs # NoAttrs
    /\ Pairs(qry.tag.Attrs) # Pairs(nodes[qry.recv].Attrs)

\* The fields of the opening tag the loop of parse is at, as splitTagFields
\* returns them to parseOpenTag.
OpenFields == splitTagFields(TokData(data, tokens[i + 1]), tokens[i + 1].Loc).fields

\* The fields after the name whose key an earlier field has.
Repeated(fields) ==
    { k \in 2..Len(fields) :
        \E j \in 2..(k - 1) : parseAttr(fields[j]).key = parseAttr(fields[k]).key }

\* The mapping from each key to the value of the first field that has it.
FirstValues(fields) ==
    [key \in { parseAttr(fields[k]).key : k \in 2..Len(fields) } |->
        parseAttr(fields[CHOOSE k \in (2..Len(fields)) \ Repeated(fields) :
                            parseAttr(fields[k]).key = key]).val]

\* The warnings "repeated key" among the warnings added by the step.
RepeatedKeyWarnings(before, after) ==
    SelectSeq(SubSeq(after, Len(before) + 1, Len(after)),
              LAMBDA w : w.what = "repeated key")

\* The step builds the Element of an opening tag.
BuildsElement ==
    /\ AtToken({"tagOpenToken", "tagSelfcloseToken"})
    /\ Len(nodes') = Len(nodes) + 1

\* C16: the attrs of the Element of an opening tag map each key to the value
\* of its first occurrence, and the tag adds one repeated-key warning, which
\* names the key, for each later occurrence of a key.
C16_FirstOccurrenceWins ==
    [][BuildsElement =>
          /\ nodes'[Len(nodes')].Attrs = FirstValues(OpenFields)
          /\ Len(RepeatedKeyWarnings(warns, warns')) = Cardinality(Repeated(OpenFields))
          /\ \A k \in Repeated(OpenFields) :
                \E n \in 1..Len(RepeatedKeyWarnings(warns, warns')) :
                    RepeatedKeyWarnings(warns, warns')[n].arg = <<parseAttr(OpenFields[k]).key>>]_vars

\* The Element of "<a k=1 j k=2 k>" is built: k is 1, j is empty, and two
\* warnings are given.
C16_Witness ==
    /\ input = S(<<"<", "a", " ", "k", "=", "1", " ", "j", " ", "k", "=", "2", " ", "k", ">">>)
    /\ pc = "done"
    /\ Len(nodes) = 2
    /\ nodes[2].Attrs = (S(<<"k">>) :> S(<<"1">>)) @@ (S(<<"j">>) :> <<>>)
    /\ Len(SelectSeq(ret.warns, LAMBDA w : w.what = "repeated key")) = 2

\* The raw bytes of the token the loop of parse is at, trimmed of whitespace.
Trimmed == TrimSpace(TokData(data, tokens[i + 1]))

\* C17: for a Comment and for a Declaration token the content of the node is
\* the raw bytes of the token trimmed of leading and trailing whitespace, and
\* a token whose raw bytes are empty once trimmed is a fatal EmptyContent
\* error that appends no node.
C17_CommentDeclarationTrimmed ==
    [][AtToken({"commentToken", "declarationToken"}) =>
          IF Trimmed = <<>>
          THEN /\ pc' = "done"
               /\ ret'.err.err = EmptyContentErr
               /\ nodes' = nodes
          ELSE /\ Len(nodes') = Len(nodes) + 1
               /\ nodes'[Len(nodes')].Content = Trimmed
               /\ nodes'[Len(nodes')].Kind =
                    (IF tokens[i + 1].Kind = "commentToken"
                     THEN "CommentNode" ELSE "DeclarationNode")]_vars

\* The bytes pat are nowhere in d at or after the 0-based offset p.
NoneFrom(d, p, pat) ==
    \A q \in p..(Len(d) - Len(pat)) : SubSeq(d, q + 1, q + Len(pat)) # pat

\* d has the bytes pat at the 0-based offset p.
StartsAt(d, p, pat) == p + Len(pat) <= Len(d) /\ SubSeq(d, p + 1, p + Len(pat)) = pat

\* lex is at a '<' whose construct, a comment, a declaration, a closing or an
\* opening tag, has no terminator after its opener.
Unterminated ==
    /\ pc = "lex"
    /\ loc.Pos < Len(data)
    /\ data[loc.Pos + 1] = B("<")
    /\ IF StartsAt(data, loc.Pos, S(<<"<", "!", "-", "-">>)) THEN NoneFrom(data, loc.Pos + 4, S(<<"-", "-", ">">>))
       ELSE IF StartsAt(data, loc.Pos, S(<<"<", "!">>)) \/ StartsAt(data, loc.Pos, S(<<"<", "/">>))
       THEN NoneFrom(data, loc.Pos + 2, S(<<">">>))
       ELSE NoneFrom(data, loc.Pos + 1, S(<<">">>))

\* C18: at a comment, a declaration, a closing or an opening tag without
\* terminator lex returns a fatal UnexpectedEOF at once: the token list is
\* the list of the tokens lexed before the construct, without a token for
\* it and without an Eof token.
C18_UnterminatedIsFatal ==
    [][Unterminated =>
          /\ pc' = "done"
          /\ lexErr'.err = EofErr
          /\ ret'.err = lexErr'
          /\ tokens' = tokens
          /\ \A k \in 1..Len(tokens') :
                tokens'[k].Kind # "eofToken" /\ tokens'[k].Loc.Pos < loc.Pos]_vars

\* lex has returned the fatal error of an unterminated comment and the two
\* tokens before it.
C18_Witness ==
    /\ pc = "done"
    /\ lexErr.err = EofErr
    /\ lexErr.what = "error lexing comment"
    /\ Len(tokens) = 2

\* The terminator of the scan lex is at: the close tag of the verbatim
\* element after its open tag, the start of a tag otherwise.
ScanEnd ==
    IF inVerbatim(data, tokens)
    THEN S(<<"<", "/">>) \o extractTagName(data, tokens[Len(tokens)]) \o S(<<">">>)
    ELSE S(<<"<">>)

\* lex is at a text or a verbatim scan that finds no terminator.
TailScan ==
    /\ pc = "lex"
    /\ loc.Pos < Len(data)
    /\ data[loc.Pos + 1] # B("<")
    /\ NoneFrom(data, loc.Pos, ScanEnd)

\* C19: a text or a verbatim scan that reaches the end of input without its
\* terminator, when the remainder is all whitespace, is no fatal error, adds
\* one trailing-whitespace warning to the warnings of lex and no token, and
\* lex goes on to the Eof token; when the remainder has another byte, it is a
\* fatal UnexpectedEOF.
C19_TailIsWarningOrFatal ==
    [][TailScan =>
          IF TrimSpace(SubSeq(data, loc.Pos + 1, Len(data))) = <<>>
          THEN /\ lexErr' = NilErr
               /\ pc' = "lex"
               /\ loc'.Pos = Len(data)
               /\ tokens' = tokens
               /\ Len(lexWarns') = Len(lexWarns) + 1
               /\ lexWarns'[Len(lexWarns')].err = EofErr
          ELSE /\ pc' = "done"
               /\ lexErr'.err = EofErr
               /\ tokens' = tokens]_vars

\* lex has returned without a fatal error (the input is then not empty).
LexReturned == pc \in {"parse", "done"} /\ lexErr = NilErr

\* C20: when lex returns without a fatal error the token list ends with an
\* Eof token whose offset is the length of the input, no other token is an
\* Eof or an invalid token, the offsets of the tokens increase strictly, and
\* every Text and Verbatim token has at least one byte; so Parse never
\* returns the EmptyContent error of a text.
C20_TokenListShape ==
    LexReturned
    => /\ Len(input) > 0
       /\ Len(tokens) > 0
       /\ tokens[Len(tokens)].Kind = "eofToken"
       /\ tokens[Len(tokens)].Loc.Pos = Len(input)
       /\ \A k \in 1..(Len(tokens) - 1) :
             /\ tokens[k].Kind \notin {"eofToken", "invalidToken"}
             /\ tokens[k].Loc.Pos < tokens[k + 1].Loc.Pos
             /\ tokens[k].Kind \in {"textToken", "verbatimToken"} => tokens[k].Hi > tokens[k].Lo
       /\ ret.err.what # "error parsing text"

\* lex has returned the tokens of "<script>1 < 2 & more</script>": an open
\* tag, a Verbatim token, a close tag and the Eof token.
C20_Witness ==
    /\ LexReturned
    /\ Len(tokens) = 4
    /\ tokens[2].Kind = "verbatimToken"
    /\ tokens[4].Loc.Pos = 29

\* The step is an iteration of parse that ends with a fatal error.
ParseFails == pc = "parse" /\ pc' = "done" /\ ret'.err # NilErr

\* C21: when a token causes a fatal parser error parse stops at once: the
\* Document returned is not nil and is the tree built from the tokens before
\* it, the stack is as it was, no end-of-input warning is added, and the
\* warnings returned are the warnings of lex followed by the warnings
\* collected from the tokens before it; nothing happens afterwards.
C21_FatalStopsAtOnce ==
    [][/\ ParseFails =>
            /\ ret'.node = docNode
            /\ ret'.node # NilNode
            /\ nodes' = nodes
            /\ tags' = tags
            /\ i' = i
            /\ warns' = warns
            /\ ret'.warns = lexWarns \o warns
            /\ \A k \in 1..Len(ret'.warns) :
                  ret'.warns[k].err \notin {UnclosedTagErr, EmptyTagStackErr}
       /\ pc = "done" => UNCHANGED vars]_vars

\* Parse has returned the fatal error of the third token of "<a></b><!><p>":
\* an Element is open, a warning was collected, a token is left.
C21_Witness ==
    /\ pc = "done"
    /\ lexErr = NilErr
    /\ ret.err # NilErr
    /\ i = 2
    /\ Len(tokens) > 4
    /\ Len(tags) = 2
    /\ Len(warns) = 1
    /\ Len(nodes) = 3

\* C22: Parse never modifies the bytes of the caller's buffer: when Parse has
\* returned the buffer is byte for byte what it was when Parse was called.
C22_BufferUnchanged == pc = "done" => data = input

\* C23: in every state of parse the stack of open elements is not empty and
\* its bottom entry is the Document; so Parse returns neither the
\* EmptyTagStack error nor an EmptyTagStack warning.
C23_RootStaysOnStack ==
    /\ pc = "parse" \/ (pc = "done" /\ nodes # <<>>)
       => /\ Len(tags) >= 1
          /\ tags[1] = docNode
          /\ nodes[tags[1]].Kind = "DocumentNode"
    /\ ret.err.err # EmptyTagStackErr
    /\ \A k \in 1..Len(ret.warns) : ret.warns[k].err # EmptyTagStackErr

\* A close tag has popped the only open Element: the stack is the Document.
C23_Witness ==
    /\ pc = "parse"
    /\ i >= 1
    /\ tokens[i].Kind = "tagCloseToken"
    /\ Len(nodes) = 2
    /\ tags = <<docNode>>

\* The 0-based offset after the last newline of d before the offset p.
LineStart(d, p) ==
    IF \E q \in 1..p : d[q] = B("\n")
    THEN CHOOSE q \in 1..p : d[q] = B("\n") /\ \A r \in (q + 1)..p : d[r] # B("\n")
    ELSE 0

\* C24: the Location of every token agrees with its byte offset: its line is
\* 1 plus the number of newlines before the offset, its col is 1 plus the
\* number of bytes other than carriage return between the last newline (or
\* the start of the input) and the offset, the bytes of the delimiters
\* counted like the others.
C24_LocationMatchesOffset ==
    \A k \in 1..Len(tokens) :
        /\ tokens[k].Loc.Line
             = 1 + Cardinality({q \in 1..tokens[k].Loc.Pos : input[q] = B("\n")})
        /\ tokens[k].Loc.Col
             = 1 + Cardinality({q \in (LineStart(input, tokens[k].Loc.Pos) + 1)..tokens[k].Loc.Pos :
                                  input[q] # B("\r")})

\* ---------------------------------------------------------------------
\* The runs of Parse and of expandEntitys together.

InitRuns == Init \/ InitEntity

NextRuns == Next \/ NextEntity

SpecRuns == InitRuns /\ [][NextRuns]_vars

\* The step is an iteration of expandEntitys that calls parseEntity.
CallsParseEntity == pc = "entity" /\ ent'.calls = ent.calls + 1

\* C25: Parse terminates, every loop having a bounded measure that each
\* iteration moves: an iteration of the loop of lex that does not return
\* increases the byte offset, which stays within the input; an iteration of
\* the loop of parse goes to the next token; a call of parseEntity made by
\* expandEntitys returns a length n with 1 <= n <= len(data), an expansion
\* that is not empty and no index out of range, and leaves less data.
C25_Terminates ==
    [][/\ pc = "lex" /\ pc' = "lex" => loc'.Pos > loc.Pos /\ loc'.Pos <= Len(data')
       /\ pc = "parse" /\ pc' = "parse" => i' = i + 1 /\ i' <= Len(tokens)
       /\ pc \in {"done", "entityDone"} => UNCHANGED vars
       /\ CallsParseEntity =>
             /\ ent'.out.entityLen >= 1
             /\ ent'.out.entityLen <= Len(ent'.in)
             /\ ent'.out.exp # <<>>
             /\ ent'.out.err # panicErr
             /\ Len(ent'.data) < Len(ent.data)]_vars

\* expandEntitys has returned after three calls of parseEntity, the last of
\* which gave a warning.
C25_Witness ==
    /\ pc = "entityDone"
    /\ ent.calls = 3
    /\ ent.out.err # NilErr
    /\ ent.data = <<>>

\* ---------------------------------------------------------------------
\* The body of the opening tag the loop of parse is at.
TagBody == TokData(data, tokens[i + 1])

\* The bytes of s that are not whitespace.
NoSpaces(s) == SelectSeq(s, LAMBDA c : ~isSpace(c))

\* The Data of the fields from the k-th on, one after another.
RECURSIVE FieldBytes(_, _)
FieldBytes(fields, k) ==
    IF k > Len(fields) THEN <<>> ELSE fields[k].Data \o FieldBytes(fields, k + 1)

\* A byte of a key or of an unquoted value.
IsWordByte(c) == ~isSpace(c) /\ c \notin {B("="), B("\""), B("'")}

\* In the tag body b, the pairs <<p, r>> of a '=' that ends a key and the
\* next '=', with an unquoted value between them and a value after r.
ChainedAt(b) ==
    { pr \in (1..Len(b)) \X (1..Len(b)) :
        /\ pr[1] > 1 /\ pr[1] + 1 < pr[2] /\ pr[2] < Len(b)
        /\ b[pr[1]] = B("=") /\ b[pr[2]] = B("=")
        /\ IsWordByte(b[pr[1] - 1]) /\ IsWordByte(b[pr[2] + 1])
        /\ \A q \in (pr[1] + 1)..(pr[2] - 1) : IsWordByte(b[q]) }

\* The unquoted values of b that another '=' follows at once.
ChainedValues(b) == { Slice(b, pr[1], pr[2] - 1) : pr \in ChainedAt(b) }

\* The step builds the Element of an opening tag without quotes that has an
\* unquoted value followed at once by '='.
BuildsChained ==
    /\ BuildsElement
    /\ ChainedValues(TagBody) # {}
    /\ \A q \in 1..Len(TagBody) : TagBody[q] \notin {B("\""), B("'")}

\* C26: an unquoted attribute value that another '=' follows at once is the
\* next key: the fields keep every byte of the tag body that is not
\* whitespace, the value is a key of the Element, and the Element has no
\* attribute with an empty key.
C26_ValueIsNextKey ==
    [][BuildsChained =>
          /\ FieldBytes(OpenFields, 1) = NoSpaces(TagBody)
          /\ ChainedValues(TagBody) \subseteq DOMAIN nodes'[Len(nodes')].Attrs
          /\ <<>> \notin DOMAIN nodes'[Len(nodes')].Attrs]_vars

\* ---------------------------------------------------------------------
\* Node n is the Element of a self-closing tag.
FromSelfClose(n) ==
    /\ nodes[n].Kind = "ElementNode"
    /\ \E k \in 1..Len(tokens) :
          tokens[k].Kind = "tagSelfcloseToken" /\ tokens[k].Loc = nodes[n].Loc

\* The top of the stack is the Element of a self-closing tag.
SelfCloseOnTop == pc = "parse" /\ Len(tags) > 1 /\ FromSelfClose(Peek(tags))

\* C27: the Element of a self-closing tag whose name is not a void name is
\* appended to the top of the stack and pushed, as the Element of an
\* opening tag is; while it is the top, the node of a token becomes its last
\* child, a close tag with its name pops it, and the end of input with it
\* on top gives the unclosed-tag warning that names it.
C27_SelfCloseIsPushed ==
    [][/\ BuildsElement /\ nodes'[Len(nodes')].Content \notin unpairedTags =>
             /\ tags' = Append(tags, Len(nodes'))
             /\ nodes'[Peek(tags)].Children = Append(nodes[Peek(tags)].Children, Len(nodes'))
       /\ SelfCloseOnTop /\ Len(nodes') = Len(nodes) + 1 =>
             nodes'[Peek(tags)].Children = Append(nodes[Peek(tags)].Children, Len(nodes'))
       /\ SelfCloseOnTop /\ AtToken({"tagCloseToken"})
             /\ TrimSpace(TokData(data, tokens[i + 1])) = nodes[Peek(tags)].Content =>
             tags' = Pop(tags) /\ nodes' = nodes /\ warns' = warns
       /\ SelfCloseOnTop /\ pc' = "done" /\ ret'.err = NilErr =>
             /\ Len(ret'.warns) > 0
             /\ ret'.warns[Len(ret'.warns)].err = UnclosedTagErr
             /\ ret'.warns[Len(ret'.warns)].arg = <<nodes[Peek(tags)].Content>>
             /\ ret'.warns[Len(ret'.warns)].line = nodes[Peek(tags)].Loc.Line]_vars

\* "<x/>y<br>" has been parsed: the Element of "<x/>" has the Text and the
\* Element of "<br>" as children and is left open.
C27_Witness ==
    /\ pc = "done"
    /\ ret.err = NilErr
    /\ Len(nodes) = 4
    /\ tags = <<docNode, 2>>
    /\ tokens[1].Kind = "tagSelfcloseToken"
    /\ nodes[2].Children = <<3, 4>>
    /\ nodes[3].Kind = "TextNode"
    /\ ret.warns[Len(ret.warns)].err = UnclosedTagErr

\* ---------------------------------------------------------------------
\* The trimmed raw bytes of the close tag the loop of parse is at.
RawCloseName == TrimSpace(TokData(data, tokens[i + 1]))

\* The step pops the stack and goes on.
Pops == tags' = Pop(tags) /\ pc' = "parse" /\ nodes' = nodes

\* C28: a close tag pops the stack exactly when its trimmed raw bytes equal
\* the lower-cased name of the Element on top of the stack; the bytes of the
\* close tag are not lower-cased, so a close tag with an upper-case letter
\* never pops: it gives a tag-mismatch warning, and "<DIV>x</DIV>" returns
\* that warning and the unclosed-tag warning of the Element.
C28_CloseMatchesCaseSensitively ==
    [][/\ AtToken({"tagCloseToken"}) =>
             /\ Pops <=> /\ nodes[Peek(tags)].Kind = "ElementNode"
                         /\ RawCloseName = nodes[Peek(tags)].Content
             /\ (\E k \in 1..Len(RawCloseName) : RawCloseName[k] # ToLowerByte(RawCloseName[k])) =>
                   /\ ~Pops
                   /\ Len(warns') = Len(warns) + 1
                   /\ warns'[Len(warns')].err = TagMismatchErr
                   /\ warns'[Len(warns')].arg = <<nodes[Peek(tags)].Content, RawCloseName>>
       /\ pc' = "done" /\ input = S(<<"<", "D", "I", "V", ">", "x", "<", "/", "D", "I", "V", ">">>) =>
             /\ ret'.err = NilErr
             /\ Len(ret'.warns) = 2
             /\ ret'.warns[1].err = TagMismatchErr
             /\ ret'.warns[1].arg = <<S(<<"d", "i", "v">>), S(<<"D", "I", "V">>)>>
             /\ ret'.warns[2].err = UnclosedTagErr
             /\ ret'.warns[2].arg = <<S(<<"d", "i", "v">>)>>]_vars

\* "<DIV>x</DIV>" has been parsed: the close tag has not popped the Element
\* "div".
C28_Witness ==
    /\ pc = "done"
    /\ input = S(<<"<", "D", "I", "V", ">", "x", "<", "/", "D", "I", "V", ">">>)
    /\ tags = <<docNode, 2>>
    /\ nodes[2].Content = S(<<"d", "i", "v">>)
    /\ Len(nodes) = 4
    /\ nodes[4].Kind = "InvalidNode"
    /\ nodes[4].Content = S(<<"D", "I", "V">>)

\* ---------------------------------------------------------------------
\* The nodes that have node n among their Children.
Parents(nds, n) ==
    { p \in 1..Len(nds) : \E k \in 1..Len(nds[p].Children) : nds[p].Children[k] = n }

\* The stack stk is a path of the tree nds from the Document: each entry
\* above the bottom is an Element of a paired name and the last child of the
\* entry below it.
IsPath(nds, stk) ==
    /\ Len(stk) >= 1
    /\ stk[1] = docNode
    /\ \A k \in 2..Len(stk) :
          /\ nds[stk[k]].Kind = "ElementNode"
          /\ nds[stk[k]].Content \notin unpairedTags
          /\ nds[stk[k - 1]].Children # <<>>
          /\ nds[stk[k - 1]].Children[Len(nds[stk[k - 1]].Children)] = stk[k]

\* nds is a tree on the Document: every other node has one parent, which
\* was built before it, and is once among its Children; the Document has
\* none; the Children of a node are in the order of their tokens; the nodes
\* with Children are the Document and Elements.
IsTree(nds) ==
    /\ nds[docNode].Kind = "DocumentNode"
    /\ Parents(nds, docNode) = {}
    /\ \A n \in 2..Len(nds) :
          /\ Cardinality(Parents(nds, n)) = 1
          /\ \A p \in Parents(nds, n) : p < n
    /\ \A p \in 1..Len(nds) :
          /\ \A j, k \in 1..Len(nds[p].Children) :
                j < k => nds[nds[p].Children[j]].Loc.Pos < nds[nds[p].Children[k]].Loc.Pos
          /\ nds[p].Children # <<>> => nds[p].Kind \in {"DocumentNode", "ElementNode"}

\* The step appends the node of the token the loop is at to the top of the
\* stack and leaves the other nodes as they are.
AppendsToTop ==
    /\ nodes'[Len(nodes')].Loc = tokens[i + 1].Loc
    /\ nodes'[Len(nodes')].Children = <<>>
    /\ nodes'[Peek(tags)].Children = Append(nodes[Peek(tags)].Children, Len(nodes'))
    /\ \A n \in 1..Len(nodes) : n # Peek(tags) => nodes'[n] = nodes[n]

\* C29, as stated: in every state of parse the stack is a path of the tree
\* from the Document that ends at a leaf, each entry above the bottom an
\* Element of a paired name and the last child of the entry below it; every
\* node is appended once, to the top of the stack at its token; the result
\* is a tree in token order where only the Document and Elements have
\* children.
C29_StackIsRootToLeafPath ==
    [][/\ pc' = "parse" => IsPath(nodes', tags') /\ IsTree(nodes')
       /\ pc = "parse" /\ pc' = "done" => IsPath(nodes', tags') /\ IsTree(nodes')
       /\ pc = "parse" /\ nodes' # nodes => Len(nodes') = Len(nodes) + 1 /\ AppendsToTop
       /\ pc' = "parse" => nodes'[Peek(tags')].Children = <<>>]_vars

\* C29, amended: in every state of parse the stack is a path of the tree
\* from the Document to the innermost open Element, which has the children
\* appended to it so far and need not be a leaf; each entry above the bottom
\* is an Element of a paired name and the last child of the entry below it;
\* every node appended is appended once, to the top of the stack at its
\* token; the result is a tree in token order where only the Document and
\* Elements have children.
C29_StackIsPath ==
    [][/\ pc' = "parse" => IsPath(nodes', tags') /\ IsTree(nodes')
       /\ pc = "parse" /\ pc' = "done" => IsPath(nodes', tags') /\ IsTree(nodes')
       /\ pc = "parse" /\ nodes' # nodes => Len(nodes') = Len(nodes) + 1 /\ AppendsToTop]_vars

\* The loop of parse has three entries on the stack, the top with two
\* children.
C29_Witness ==
    /\ pc = "parse"
    /\ Len(tags) = 3
    /\ Len(nodes[Peek(tags)].Children) = 2

====
